---------------------------- MODULE Spec2Model ----------------------------
(***************************************************************************)
(* A model of the AWSOM-LP log parser (package awsomlp).                   *)
(*                                                                         *)
(* Strings are sequences of one-character strings, so that trimming,       *)
(* splitting into fields, regular-expression replacement and string        *)
(* ordering are computed character by character as the Go code does.       *)
(* float64 ratios (MinSimilarity, MaxPlaceholderRatio, FreqPercentile) are  *)
(* kept in tenths: the integer 9 stands for 0.9.  A []string is a sequence; *)
(* a nil slice and an empty slice are both <<>> (the code only takes their  *)
(* length or ranges over them, apart from the nil test of WithConfig, which *)
(* replaces nil by the empty default).                                     *)
(***************************************************************************)
EXTENDS Integers, Sequences, FiniteSets, TLC

VARIABLES
    lp,        \* the AWSOMLP instance: patterns, headerRegex, customRegexes, config
    heap,      \* the LogEvent objects allocated so far; a *LogEvent is an index
    pc,        \* position of the running Parse call ("idle" when none runs)
    events,    \* Parse's local slice of the events built by this call
    next,      \* index in events of the next event patternRecognition handles
    logLines,  \* argument of the last Parse call
    results,   \* value returned by the last Parse call
    templates, \* value returned by the last GetTemplates call
    cfgArg,    \* argument of the last WithConfig call
    err,       \* value returned by the last WithConfig call ("" is nil)
    last,      \* name of the last completed call
    calls,     \* number of calls made so far, per method
    lp2,       \* a second, independent instance (used by the two-instance runs)
    heap2,     \* its events
    results2,  \* value returned by its last Parse call
    templates2 \* value returned by its last GetTemplates call

vars == <<lp, heap, pc, events, next, logLines, results, templates, cfgArg, err,
          last, calls, lp2, heap2, results2, templates2>>

-----------------------------------------------------------------------------
(* Characters and strings                                                  *)

Digit == {"0", "1", "2", "3", "4", "5", "6", "7", "8", "9"}

Lower == {"a", "b", "c", "d", "e", "f", "g", "h", "i", "j", "k", "l", "m",
          "n", "o", "p", "q", "r", "s", "t", "u", "v", "w", "x", "y", "z"}

Upper == {"A", "B", "C", "D", "E", "F", "G", "H", "I", "J", "K", "L", "M",
          "N", "O", "P", "Q", "R", "S", "T", "U", "V", "W", "X", "Y", "Z"}

\* unicode.IsLetter, on the ASCII characters of the model
Letter == Lower \cup Upper

\* [0-9a-fA-F]
HexDigit == Digit \cup {"a", "b", "c", "d", "e", "f", "A", "B", "C", "D", "E", "F"}

\* \w of Go's regexp: [0-9A-Za-z_]
WordChar == Digit \cup Letter \cup {"_"}

\* \s of Go's regexp, and unicode.IsSpace on ASCII
Space == {" ", "\t", "\n", "\r", "\f"}

\* The characters of the model in byte order (Go compares strings bytewise).
CharOrder ==
    <<"\t", "\n", "\f", "\r", " ", "%", "(", ")", "*", "+", ",", "-", ".", "/",
      "0", "1", "2", "3", "4", "5", "6", "7", "8", "9", ":", "<", ">", "@",
      "A", "B", "C", "D", "E", "F", "G", "H", "I", "J", "K", "L", "M",
      "N", "O", "P", "Q", "R", "S", "T", "U", "V", "W", "X", "Y", "Z",
      "[", "\\", "]", "_",
      "a", "b", "c", "d", "e", "f", "g", "h", "i", "j", "k", "l", "m",
      "n", "o", "p", "q", "r", "s", "t", "u", "v", "w", "x", "y", "z">>

AnyChar == {CharOrder[i] : i \in DOMAIN CharOrder}

Ord(c) == CHOOSE i \in DOMAIN CharOrder : CharOrder[i] = c

\* s < t for Go strings
RECURSIVE StrLess(_, _)
StrLess(s, t) ==
    IF t = <<>> THEN FALSE
    ELSE IF s = <<>> THEN TRUE
    ELSE IF Head(s) = Head(t) THEN StrLess(Tail(s), Tail(t))
    ELSE Ord(Head(s)) < Ord(Head(t))

\* the placeholder "<*>"
Placeholder == <<"<", "*", ">">>

\* s[i:j] of Go with 1-based, inclusive bounds
Slice(s, i, j) == IF i > j THEN <<>> ELSE SubSeq(s, i, j)

HasPrefix(s, p) == Len(s) >= Len(p) /\ SubSeq(s, 1, Len(p)) = p

HasSuffix(s, p) == Len(s) >= Len(p) /\ SubSeq(s, Len(s) - Len(p) + 1, Len(s)) = p

\* strings.TrimSpace
RECURSIVE TrimLeft(_)
TrimLeft(s) == IF s # <<>> /\ Head(s) \in Space THEN TrimLeft(Tail(s)) ELSE s

RECURSIVE TrimRight(_)
TrimRight(s) ==
    IF s # <<>> /\ s[Len(s)] \in Space THEN TrimRight(SubSeq(s, 1, Len(s) - 1)) ELSE s

TrimSpace(s) == TrimRight(TrimLeft(s))

\* strings.Fields: the maximal runs of non-space characters
RECURSIVE FieldsFrom(_, _, _)
FieldsFrom(s, i, cur) ==
    IF i > Len(s) THEN (IF cur = <<>> THEN <<>> ELSE <<cur>>)
    ELSE IF s[i] \in Space
         THEN (IF cur = <<>> THEN <<>> ELSE <<cur>>) \o FieldsFrom(s, i + 1, <<>>)
         ELSE FieldsFrom(s, i + 1, Append(cur, s[i]))

Fields(s) == FieldsFrom(s, 1, <<>>)

\* strings.Join(tokens, " ")
RECURSIVE Join(_)
Join(tokens) ==
    IF tokens = <<>> THEN <<>>
    ELSE IF Len(tokens) = 1 THEN tokens[1]
    ELSE tokens[1] \o <<" ">> \o Join(Tail(tokens))

-----------------------------------------------------------------------------
(* Regular expressions                                                     *)
(*                                                                         *)
(* A pattern is a syntax tree; Ends(re, s, i) is the set of positions j    *)
(* such that s[i..j-1] matches re.  Every quantifier of the modelled        *)
(* patterns is greedy and is followed by a character its body cannot       *)
(* match, or by the end of the pattern, so the match the Go engine prefers  *)
(* at a start position is the longest one.                                  *)

Cls(set) == [t |-> "cls", set |-> set]
Ch(c) == Cls({c})
NotCls(set) == [t |-> "cls", set |-> AnyChar \ set]
Cat(rs) == [t |-> "cat", rs |-> rs]
Alt(rs) == [t |-> "alt", rs |-> rs]
Opt(r) == [t |-> "opt", r |-> r]
Plus(r) == [t |-> "plus", r |-> r]
Star(r) == Opt(Plus(r))
Bol == [t |-> "bol"]
Eol == [t |-> "eol"]
WordB == [t |-> "wordb"]

\* r{n}
RECURSIVE Times(_, _)
Times(r, n) == IF n = 0 THEN <<>> ELSE <<r>> \o Times(r, n - 1)

\* r{n,m}
RECURSIVE OptTimes(_, _)
OptTimes(r, n) == IF n = 0 THEN Cat(<<>>) ELSE Opt(Cat(<<r, OptTimes(r, n - 1)>>))

Rep(r, n, m) == Cat(Times(r, n) \o <<OptTimes(r, m - n)>>)

\* r{n,}
AtLeast(r, n) == Cat(Times(r, n) \o <<Star(r)>>)

\* the literal string w
Lit(w) == Cat([i \in DOMAIN w |-> Ch(w[i])])

\* the element of a one-element set; Only({F(x) : x \in {e}}) is F(e) with e
\* evaluated once
Only(set) == CHOOSE x \in set : TRUE

IsWordAt(s, i) == i >= 1 /\ i <= Len(s) /\ s[i] \in WordChar

RECURSIVE Ends(_, _, _)
Ends(re, s, i) ==
    CASE re.t = "cls" -> IF i <= Len(s) /\ s[i] \in re.set THEN {i + 1} ELSE {}
      [] re.t = "bol" -> IF i = 1 THEN {i} ELSE {}
      [] re.t = "eol" -> IF i = Len(s) + 1 THEN {i} ELSE {}
      [] re.t = "wordb" -> IF IsWordAt(s, i - 1) # IsWordAt(s, i) THEN {i} ELSE {}
      [] re.t = "opt" -> {i} \cup Ends(re.r, s, i)
      [] re.t = "plus" ->
            UNION {one \cup UNION {Ends(re, s, j) : j \in one} :
                   one \in {{j \in Ends(re.r, s, i) : j > i}}}
      [] re.t = "alt" -> UNION {Ends(re.rs[k], s, i) : k \in DOMAIN re.rs}
      [] re.t = "cat" ->
            IF re.rs = <<>> THEN {i}
            ELSE UNION {Ends(Cat(Tail(re.rs)), s, j) : j \in Ends(Head(re.rs), s, i)}

Max(set) == CHOOSE x \in set : \A y \in set : y <= x

\* The leftmost match of re in s at or after position from: <<start, end>>
\* (end exclusive), or <<0, 0>> when there is none.
RECURSIVE FindFrom(_, _, _)
FindFrom(re, s, from) ==
    IF from > Len(s) + 1 THEN <<0, 0>>
    ELSE Only({IF e # {} THEN <<from, Max(e)>> ELSE FindFrom(re, s, from + 1) :
               e \in {Ends(re, s, from)}})


\* regexp.ReplaceAllStringFunc restricted to one replacement function per use:
\* the non-overlapping matches are found from left to right, each is replaced
\* by repl(match), the text between them is copied.
\* the function literal of replaceRemainingNumericalVariables
NumericReplacement(match) ==
    LET pre == HasPrefix(match, <<" ">>)
        c1 == IF pre THEN Tail(match) ELSE match
        suf == HasSuffix(match, <<" ">>)
        content == IF suf THEN SubSeq(c1, 1, Len(c1) - 1) ELSE c1
    IN  IF HasPrefix(content, <<"(">>) /\ HasSuffix(content, <<")">>)
            THEN <<"(">> \o Placeholder \o <<")">>
        ELSE IF HasPrefix(content, <<"[">>) /\ HasSuffix(content, <<"]">>)
            THEN <<"[">> \o Placeholder \o <<"]">>
        ELSE (IF pre THEN <<" ">> ELSE <<>>) \o Placeholder
             \o (IF suf THEN <<" ">> ELSE <<>>)

RECURSIVE ReplaceAllFrom(_, _, _, _)
ReplaceAllFrom(re, s, from, kind) ==
    Only({IF m[1] = 0 THEN Slice(s, from, Len(s))
          ELSE IF m[2] = m[1]
               THEN \* an empty match: copy one character and go on
                    Slice(s, from, m[1]) \o ReplaceAllFrom(re, s, m[1] + 1, kind)
               ELSE Slice(s, from, m[1] - 1)
                    \o (IF kind = "placeholder" THEN Placeholder
                        ELSE NumericReplacement(Slice(s, m[1], m[2] - 1)))
                    \o ReplaceAllFrom(re, s, m[2], kind) :
          m \in {FindFrom(re, s, from)}})

\* re.ReplaceAllString(s, "<*>")
ReplaceAllString(re, s) == ReplaceAllFrom(re, s, 1, "placeholder")

\* re.ReplaceAllStringFunc(s, func(match) ...) of replaceRemainingNumericalVariables
ReplaceAllNumeric(re, s) == ReplaceAllFrom(re, s, 1, "numeric")

Sp == Cls(Space)
Dg == Cls(Digit)
Lt == Cls(Letter)
Hx == Cls(HexDigit)

\* the five bodies of numericalPatterns and of the prefix_number identifiers
NumInt == <<Plus(Dg)>>
NumFloat == <<Opt(Ch("-")), Plus(Dg), Opt(Cat(<<Ch("."), Plus(Dg)>>))>>
NumHex == <<Ch("0"), Cls({"x", "X"}), Plus(Hx)>>
NumSci == NumFloat \o <<Cls({"e", "E"}), Opt(Cls({"+", "-"})), Plus(Dg)>>
NumUnit == NumFloat \o <<Plus(Lt)>>
NumIdent == <<Plus(Lt), Ch("_"), Opt(Ch("-")), Plus(Dg)>>

\* the five contexts in which numericalPatterns looks for each body
Contexts(body) ==
    << Cat(<<Sp>> \o body \o <<Sp>>),
       Cat(<<Ch("(")>> \o body \o <<Ch(")")>>),
       Cat(<<Ch("[")>> \o body \o <<Ch("]")>>),
       Cat(<<Sp>> \o body \o <<Eol>>),
       Cat(<<Bol>> \o body \o <<Sp>>) >>

numericalPatterns ==
    Contexts(NumInt) \o Contexts(NumFloat) \o Contexts(NumHex)
    \o Contexts(NumSci) \o Contexts(NumUnit) \o Contexts(NumIdent)

\* the inner loop of replaceRemainingNumericalVariables on one template
RECURSIVE ApplyNumeric(_, _)
ApplyNumeric(res, template) ==
    IF res = <<>> THEN template
    ELSE Only({ApplyNumeric(Tail(res), t) : t \in {ReplaceAllNumeric(Head(res), template)}})

\* the loop over numericalPatterns on one template
NumericCleanup(template) == ApplyNumeric(numericalPatterns, template)

-----------------------------------------------------------------------------
(* The pattern tables of the package                                       *)

Wd == Cls(WordChar)
AlNum == Digit \cup Letter
Dot == NotCls({"\n"})
Dn(n) == Cat(Times(Dg, n))
Hn(n) == Cat(Times(Hx, n))
Words(ws) == Alt([i \in DOMAIN ws |-> Lit(ws[i])])

\* \d{2}:\d{2}:\d{2}
Clock == Cat(<<Dn(2), Ch(":"), Dn(2), Ch(":"), Dn(2)>>)
\* (\.\d+)?
Frac == Opt(Cat(<<Ch("."), Plus(Dg)>>))
\* \d{4}-\d{2}-\d{2}
IsoDate == Cat(<<Dn(4), Ch("-"), Dn(2), Ch("-"), Dn(2)>>)
\* ([+-]\d{2}:\d{2}|Z)?
Zone == Opt(Alt(<<Cat(<<Cls({"+", "-"}), Dn(2), Ch(":"), Dn(2)>>), Ch("Z")>>))

MonthAbbr ==
    Words(<< <<"J","a","n">>, <<"F","e","b">>, <<"M","a","r">>, <<"A","p","r">>,
             <<"M","a","y">>, <<"J","u","n">>, <<"J","u","l">>, <<"A","u","g">>,
             <<"S","e","p">>, <<"O","c","t">>, <<"N","o","v">>, <<"D","e","c">> >>)

MonthFull ==
    Words(<< <<"J","a","n","u","a","r","y">>, <<"F","e","b","r","u","a","r","y">>,
             <<"M","a","r","c","h">>, <<"A","p","r","i","l">>, <<"M","a","y">>,
             <<"J","u","n","e">>, <<"J","u","l","y">>, <<"A","u","g","u","s","t">>,
             <<"S","e","p","t","e","m","b","e","r">>, <<"O","c","t","o","b","e","r">>,
             <<"N","o","v","e","m","b","e","r">>, <<"D","e","c","e","m","b","e","r">> >>)

WeekDay ==
    Words(<< <<"M","o","n">>, <<"T","u","e">>, <<"W","e","d">>, <<"T","h","u">>,
             <<"F","r","i">>, <<"S","a","t">>, <<"S","u","n">>,
             <<"M","o","n","d","a","y">>, <<"T","u","e","s","d","a","y">>,
             <<"W","e","d","n","e","s","d","a","y">>, <<"T","h","u","r","s","d","a","y">>,
             <<"F","r","i","d","a","y">>, <<"S","a","t","u","r","d","a","y">>,
             <<"S","u","n","d","a","y">> >>)

trivialVarPatterns ==
    << \* directory paths
       AtLeast(Cat(<<Ch("/"), Plus(Cls(AlNum \cup {".", "_", "/", "-"}))>>), 3),
       AtLeast(Cat(<<Lt, Ch(":"), Ch("\\"),
                     Plus(Cls(WordChar \cup Space \cup {"\\", ".", "/", "-"}))>>), 2),
       \* IPv4 addresses
       Cat(<<Opt(Ch("/"))>> \o Times(Cat(<<Rep(Dg, 1, 3), Ch(".")>>), 3)
           \o <<Rep(Dg, 1, 3), Opt(Cat(<<Ch(":"), Rep(Dg, 1, 5)>>))>>),
       \* IPv6 addresses
       Cat(<<WordB>> \o Times(Cat(<<Rep(Hx, 1, 4), Ch(":")>>), 7) \o <<Rep(Hx, 1, 4), WordB>>),
       \* hex values
       Cat(<<Ch("0"), Ch("x"), AtLeast(Hx, 4)>>),
       \* MAC addresses
       Cat(Times(Cat(<<Hn(2), Cls({":", "-"})>>), 5) \o <<Hn(2)>>),
       \* UUIDs
       Cat(<<Hn(8), Ch("-"), Hn(4), Ch("-"), Hn(4), Ch("-"), Hn(4), Ch("-"), Hn(12)>>),
       \* hashes
       Cat(<<WordB, Rep(Hx, 32, 64), WordB>>),
       \* date and time formats
       Cat(<<IsoDate, Ch("T"), Clock, Frac, Zone>>),
       Cat(<<IsoDate, Plus(Sp), Clock, Frac>>),
       Cat(<<Rep(Dg, 1, 2), Ch("/"), Rep(Dg, 1, 2), Ch("/"), Dn(4), Plus(Sp), Clock, Frac>>),
       Cat(<<Rep(Dg, 1, 2), Cls({"-", " "}), MonthAbbr, Cls({"-", " "}), Dn(4), Plus(Sp),
             Clock, Frac>>),
       Cat(<<MonthAbbr, Plus(Sp), Rep(Dg, 1, 2), Plus(Sp), Dn(4), Plus(Sp), Clock, Frac>>),
       Cat(<<Rep(Dg, 1, 2), Plus(Sp), MonthAbbr, Plus(Sp), Dn(4), Plus(Sp), Clock, Frac>>),
       Cat(<<MonthAbbr, Plus(Sp), Rep(Dg, 1, 2), Plus(Sp), Clock>>),
       Cat(<<Dn(4), Ch("/"), Dn(2), Ch("/"), Dn(2), Plus(Sp), Clock, Frac>>),
       Cat(<<Dn(2), Ch("."), Dn(2), Ch("."), Dn(4), Plus(Sp), Clock, Frac>>),
       IsoDate,
       Cat(<<Rep(Dg, 1, 2), Ch("/"), Rep(Dg, 1, 2), Ch("/"), Dn(4)>>),
       Cat(<<Dn(2), Ch("."), Dn(2), Ch("."), Dn(4)>>),
       Cat(<<WordB, Dn(8), Ch("T"), Dn(6), WordB>>),
       Cat(<<WordB, Dn(14), WordB>>),
       \* Unix timestamps
       Cat(<<WordB, Ch("1"), Dn(9), WordB>>),
       Cat(<<WordB, Ch("1"), Dn(12), WordB>>),
       \* month and day names
       Cat(<<WordB, Alt(<<MonthAbbr, MonthFull>>), WordB>>),
       Cat(<<WordB, WeekDay, WordB>>),
       \* time of day
       Cat(<<WordB, Rep(Dg, 1, 2), Ch(":"), Dn(2), Ch(":"), Dn(2),
             Opt(Cat(<<Ch("."), Rep(Dg, 1, 6)>>)), WordB>>),
       \* URLs
       Cat(<<Lit(<<"h","t","t","p">>), Opt(Ch("s")), Lit(<<":","/","/">>), Plus(NotCls(Space))>>),
       Cat(<<Lit(<<"f","t","p",":","/","/">>), Plus(NotCls(Space))>>),
       \* e-mail addresses
       Cat(<<Plus(Cls(AlNum \cup {".", "_", "%", "+", "-"})), Ch("@"),
             Plus(Cls(AlNum \cup {".", "-"})), Ch("."), AtLeast(Lt, 2)>>),
       \* words in parentheses
       Cat(<<Ch("("), Lt, Star(Cls(AlNum \cup {"_", "-"})), Ch(")")>>),
       \* very long alphanumeric strings
       Cat(<<WordB, AtLeast(Cls(AlNum), 32), WordB>>) >>

\* The header patterns.  A pattern is kept as the part before its last
\* capture group and the last group with what follows it: removeHeader
\* returns the last group whenever it is non-empty and differs from the line,
\* and (.+) is never empty.
DefaultHeaderRegex ==
    [pre |-> Cat(<<Bol, Opt(Cat(<<IsoDate, Cls({"T"} \cup Space), Clock, Frac, Zone,
                                   Cls({",", ":"}), Star(Sp)>>))>>),
     last |-> Cat(<<Plus(Dot), Eol>>)]

HDFSHeaderRegex ==
    [pre |-> Cat(<<Dn(6), Ch(" "), Dn(6), Ch(" "), Plus(Dg), Ch(" "), Plus(Wd), Ch(" "),
                   Plus(NotCls({":"})), Ch(":"), Ch(" ")>>),
     last |-> Plus(Dot)]

\* Regular expressions are named by their source text.
\* "[invalid regex" is the malformed expression of TestWithConfig.
ReDefaultHeader == "DefaultHeaderRegex"
ReHDFSHeader == "HDFSHeaderRegex"
ReInvalid == "[invalid regex"
ReTestId == "test_\\d+"
ReUserId == "user\\d+"

HeaderSources == {ReDefaultHeader, ReHDFSHeader}
CustomSources == {ReTestId, ReUserId}

\* regexp.Compile: whether the expression compiles
Compiles(src) == src \in HeaderSources \cup CustomSources

\* the compiled form of a custom expression
CustomPattern(src) ==
    IF src = ReTestId THEN Cat(<<Lit(<<"t","e","s","t","_">>), Plus(Dg)>>)
    ELSE Cat(<<Lit(<<"u","s","e","r">>), Plus(Dg)>>)

\* the compiled form of a header expression
HeaderPattern(src) == IF src = ReHDFSHeader THEN HDFSHeaderRegex ELSE DefaultHeaderRegex

\* a nil *regexp.Regexp
NilRegexp == "nil"

-----------------------------------------------------------------------------
(* Configuration                                                           *)

SortNone == 0
SortByLength == 1
SortLexical == 2
SortByDynTokens == 3

FreqMin == 0
FreqMedian == 1
FreqPercentile == 2
FreqAll == 3

\* Config{}: every field at its zero value
ZeroConfig ==
    [MinSimilarity |-> 0,
     SortingStrategy |-> 0,
     CustomRegexes |-> <<>>,
     HeaderRegex |-> "",
     MinGroupSize |-> 0,
     MaxPlaceholderRatio |-> 0,
     MinTemplateTokens |-> 0,
     FreqThresholdStrategy |-> 0,
     FreqPercentile |-> 0,
     StrictAlphabeticalMatching |-> FALSE,
     ApplyFreqAnalysisToSmallGroups |-> FALSE]

DefaultConfig ==
    [MinSimilarity |-> 10,
     SortingStrategy |-> SortNone,
     CustomRegexes |-> <<>>,
     HeaderRegex |-> ReDefaultHeader,
     MinGroupSize |-> 1,
     MaxPlaceholderRatio |-> 9,
     MinTemplateTokens |-> 1,
     FreqThresholdStrategy |-> FreqMin,
     FreqPercentile |-> 5,
     StrictAlphabeticalMatching |-> FALSE,
     ApplyFreqAnalysisToSmallGroups |-> TRUE]

NewAWSOMLP ==
    [patterns |-> <<>>,
     headerRegex |-> NilRegexp,
     customRegexes |-> <<>>,
     config |-> DefaultConfig]

\* FillDefaults that leaves a MinSimilarity of 0 as it is
FillDefaultsKeepZero(config) ==
    [config EXCEPT
        !.HeaderRegex = IF @ = "" THEN DefaultConfig.HeaderRegex ELSE @,
        !.CustomRegexes = IF @ = <<>> THEN DefaultConfig.CustomRegexes ELSE @,
        !.MinGroupSize = IF @ = 0 THEN DefaultConfig.MinGroupSize ELSE @,
        !.MaxPlaceholderRatio = IF @ = 0 THEN DefaultConfig.MaxPlaceholderRatio ELSE @,
        !.MinTemplateTokens = IF @ = 0 THEN DefaultConfig.MinTemplateTokens ELSE @,
        !.FreqPercentile = IF @ = 0 THEN DefaultConfig.FreqPercentile ELSE @]

\* "Apply defaults for zero/empty values"
FillDefaults(config) ==
    [config EXCEPT
        !.MinSimilarity = IF @ = 0 THEN DefaultConfig.MinSimilarity ELSE @,
        !.HeaderRegex = IF @ = "" THEN DefaultConfig.HeaderRegex ELSE @,
        !.CustomRegexes = IF @ = <<>> THEN DefaultConfig.CustomRegexes ELSE @,
        !.MinGroupSize = IF @ = 0 THEN DefaultConfig.MinGroupSize ELSE @,
        !.MaxPlaceholderRatio = IF @ = 0 THEN DefaultConfig.MaxPlaceholderRatio ELSE @,
        !.MinTemplateTokens = IF @ = 0 THEN DefaultConfig.MinTemplateTokens ELSE @,
        !.FreqPercentile = IF @ = 0 THEN DefaultConfig.FreqPercentile ELSE @]

\* ValidateConfig without its last test
ValidateConfigNoPercentile(config) ==
    IF config.MinSimilarity < 0 \/ config.MinSimilarity > 10
        THEN "MinSimilarity must be between 0 and 1"
    ELSE IF config.MinGroupSize < 1
        THEN "MinGroupSize must be at least 1"
    ELSE IF config.MaxPlaceholderRatio < 0 \/ config.MaxPlaceholderRatio > 10
        THEN "MaxPlaceholderRatio must be between 0 and 1"
    ELSE IF config.MinTemplateTokens < 0
        THEN "MinTemplateTokens must be non-negative"
    ELSE ""

\* "Validate configuration parameters": the error of the first failing test, "" if none
ValidateConfig(config) ==
    IF config.MinSimilarity < 0 \/ config.MinSimilarity > 10
        THEN "MinSimilarity must be between 0 and 1"
    ELSE IF config.MinGroupSize < 1
        THEN "MinGroupSize must be at least 1"
    ELSE IF config.MaxPlaceholderRatio < 0 \/ config.MaxPlaceholderRatio > 10
        THEN "MaxPlaceholderRatio must be between 0 and 1"
    ELSE IF config.MinTemplateTokens < 0
        THEN "MinTemplateTokens must be non-negative"
    ELSE IF config.FreqPercentile < 0 \/ config.FreqPercentile > 10
        THEN "FreqPercentile must be between 0 and 1"
    ELSE ""

\* the index of the first custom expression that does not compile, 0 if all do
FirstBadRegex(srcs) ==
    IF \A i \in DOMAIN srcs : Compiles(srcs[i]) THEN 0
    ELSE CHOOSE i \in DOMAIN srcs :
            ~Compiles(srcs[i]) /\ \A j \in 1..(i - 1) : Compiles(srcs[j])

\* lp.WithConfig(config): the instance afterwards and the error returned
WithConfig(l, config) ==
    LET c == FillDefaults(config)
        invalid == ValidateConfig(c)
        bad == FirstBadRegex(c.CustomRegexes)
    IN  IF invalid # "" THEN [lp |-> l, err |-> invalid]
        ELSE IF ~Compiles(c.HeaderRegex) THEN [lp |-> l, err |-> "invalid HeaderRegex"]
        ELSE IF bad # 0
            THEN [lp |-> [l EXCEPT !.headerRegex = c.HeaderRegex,
                                   !.customRegexes = SubSeq(c.CustomRegexes, 1, bad - 1)],
                  err |-> "invalid custom regex pattern"]
        ELSE [lp |-> [l EXCEPT !.headerRegex = c.HeaderRegex,
                               !.customRegexes = c.CustomRegexes,
                               !.config = c],
              err |-> ""]

-----------------------------------------------------------------------------
(* Preprocessing                                                           *)

\* FindStringSubmatch of a header pattern: <<start, end>> of its last group at
\* the leftmost start where the pattern matches (searching from i), or <<0, 0>>
RECURSIVE LastGroupFrom(_, _, _)
LastGroupFrom(hp, s, i) ==
    IF i > Len(s) + 1 THEN <<0, 0>>
    ELSE Only({IF good # {} THEN <<Max(good), Max(Ends(hp.last, s, Max(good)))>>
               ELSE LastGroupFrom(hp, s, i + 1) :
               good \in {{e \in Ends(hp.pre, s, i) : Ends(hp.last, s, e) # {}}}})

removeHeader(l, logLine) ==
    IF l.headerRegex = NilRegexp THEN logLine
    ELSE Only({LET group == Slice(logLine, g[1], g[2] - 1)
               IN  IF g[1] # 0 /\ group # <<>> /\ group # logLine THEN group ELSE logLine :
               g \in {LastGroupFrom(HeaderPattern(l.headerRegex), logLine, 1)}})

RECURSIVE ApplyPlaceholder(_, _)
ApplyPlaceholder(res, content) ==
    IF res = <<>> THEN content
    ELSE Only({ApplyPlaceholder(Tail(res), c) : c \in {ReplaceAllString(Head(res), content)}})

replaceTrivialVariables(l, content) ==
    Only({ApplyPlaceholder([i \in DOMAIN l.customRegexes |->
                               CustomPattern(l.customRegexes[i])], c) :
          c \in {ApplyPlaceholder(trivialVarPatterns, content)}})

\* lp.Preprocess(logLine): the new LogEvent
\* Preprocess with the content written to the template as well
PreprocessWithTemplate(l, logLine) ==
    Only({[Raw |-> logLine, Content |-> content, Tokens |-> Fields(content),
           Template |-> content] :
          content \in {Only({replaceTrivialVariables(l, c) : c \in {removeHeader(l, logLine)}})}})

Preprocess(l, logLine) ==
    Only({[Raw |-> logLine, Content |-> content, Tokens |-> Fields(content),
           Template |-> <<>>] :
          content \in {Only({replaceTrivialVariables(l, c) : c \in {removeHeader(l, logLine)}})}})

-----------------------------------------------------------------------------
(* Pattern recognition                                                     *)

isAlphabeticalToken(token) ==
    /\ token # Placeholder
    /\ \A i \in DOMAIN token : token[i] \in Letter
    /\ Len(token) > 0

\* the number of items of a sequence that satisfy a test, summed with weights
RECURSIVE SumSeq(_)
SumSeq(ns) == IF ns = <<>> THEN 0 ELSE Head(ns) + SumSeq(Tail(ns))

countAlphabeticalLetters(event) ==
    SumSeq([i \in DOMAIN event.Tokens |->
              IF isAlphabeticalToken(event.Tokens[i])
              THEN Cardinality({k \in DOMAIN event.Tokens[i] : event.Tokens[i][k] \in Letter})
              ELSE 0])

RECURSIVE SelectTokens(_)
SelectTokens(tokens) ==
    IF tokens = <<>> THEN <<>>
    ELSE (IF isAlphabeticalToken(Head(tokens)) THEN <<Head(tokens)>> ELSE <<>>)
         \o SelectTokens(Tail(tokens))

getAlphabeticalTokens(event) == SelectTokens(event.Tokens)

\* alphabeticalTokensMatch that compares the lengths only
alphabeticalTokensMatchLength(tokens1, tokens2) ==
    Len(tokens1) = Len(tokens2)

alphabeticalTokensMatch(tokens1, tokens2) ==
    /\ Len(tokens1) = Len(tokens2)
    /\ \A i \in DOMAIN tokens1 : tokens1[i] = tokens2[i]

\* calculateSimilarity over the numbers of alphabetical tokens, not of letters
calculateSimilarityTokens(config, event1, event2) ==
    Only({IF count1 = 0 \/ count2 = 0 THEN [num |-> 0, den |-> 1]
          ELSE IF /\ config.StrictAlphabeticalMatching
                  /\ ~alphabeticalTokensMatch(getAlphabeticalTokens(event1),
                                              getAlphabeticalTokens(event2))
              THEN [num |-> 0, den |-> 1]
          ELSE IF count2 < count1 THEN [num |-> count2, den |-> count1]
          ELSE [num |-> count1, den |-> count2] :
          count1 \in {Len(getAlphabeticalTokens(event1))},
          count2 \in {Len(getAlphabeticalTokens(event2))}})

\* calculateSimilarity with the formula of the paper, count(L1)/count(L2), not
\* made symmetric
calculateSimilarityAsymmetric(config, event1, event2) ==
    Only({IF count1 = 0 \/ count2 = 0 THEN [num |-> 0, den |-> 1]
          ELSE IF /\ config.StrictAlphabeticalMatching
                  /\ ~alphabeticalTokensMatch(getAlphabeticalTokens(event1),
                                              getAlphabeticalTokens(event2))
              THEN [num |-> 0, den |-> 1]
          ELSE [num |-> count1, den |-> count2] :
          count1 \in {countAlphabeticalLetters(event1)},
          count2 \in {countAlphabeticalLetters(event2)}})

\* the float64 the code returns is minCount/maxCount; it is kept as the
\* fraction num/den (0 is 0/1)
calculateSimilarity(config, event1, event2) ==
    Only({IF count1 = 0 \/ count2 = 0 THEN [num |-> 0, den |-> 1]
          ELSE IF /\ config.StrictAlphabeticalMatching
                  /\ ~alphabeticalTokensMatch(getAlphabeticalTokens(event1),
                                              getAlphabeticalTokens(event2))
              THEN [num |-> 0, den |-> 1]
          ELSE IF count2 < count1 THEN [num |-> count2, den |-> count1]
          ELSE [num |-> count1, den |-> count2] :
          count1 \in {countAlphabeticalLetters(event1)},
          count2 \in {countAlphabeticalLetters(event2)}})

\* the comparison of MeetsThreshold the other way round
BelowThreshold(similarity, minSimilarity) ==
    similarity.num * 10 <= minSimilarity * similarity.den

\* similarity >= lp.config.MinSimilarity, with MinSimilarity in tenths
MeetsThreshold(similarity, minSimilarity) ==
    similarity.num * 10 >= minSimilarity * similarity.den

\* FirstMatch without the break: the last pattern the event matches
LastMatch(l, h, event) ==
    LET ok(i) == /\ Len(l.patterns[i].Events) # 0
                 /\ MeetsThreshold(
                        calculateSimilarity(l.config, event, h[l.patterns[i].Events[1]]),
                        l.config.MinSimilarity)
    IN  IF \E i \in DOMAIN l.patterns : ok(i)
        THEN CHOOSE i \in DOMAIN l.patterns :
                ok(i) /\ \A j \in (i + 1)..Len(l.patterns) : ~ok(j)
        ELSE 0

\* the index of the first pattern the event matches, 0 if none does
FirstMatch(l, h, event) ==
    LET ok(i) == /\ Len(l.patterns[i].Events) # 0
                 /\ MeetsThreshold(
                        calculateSimilarity(l.config, event, h[l.patterns[i].Events[1]]),
                        l.config.MinSimilarity)
    IN  IF \E i \in DOMAIN l.patterns : ok(i)
        THEN CHOOSE i \in DOMAIN l.patterns : ok(i) /\ \A j \in 1..(i - 1) : ~ok(j)
        ELSE 0

EmptyMap == [t \in {} |-> 0]

\* RecognizeEvent without the break: the event joins every pattern it matches
RecognizeEventNoBreak(l, h, e) ==
    LET ok(i) == /\ Len(l.patterns[i].Events) # 0
                 /\ MeetsThreshold(
                        calculateSimilarity(l.config, h[e], h[l.patterns[i].Events[1]]),
                        l.config.MinSimilarity)
    IN  IF \E i \in DOMAIN l.patterns : ok(i)
        THEN [l EXCEPT !.patterns =
                 [i \in DOMAIN l.patterns |->
                     IF ok(i) THEN [l.patterns[i] EXCEPT !.Events = Append(@, e)]
                     ELSE l.patterns[i]]]
        ELSE [l EXCEPT !.patterns =
                 Append(@, [ID |-> Len(l.patterns), Events |-> <<e>>,
                            Template |-> <<>>, Frequency |-> EmptyMap])]

\* RecognizeEvent with the IDs of new patterns counted from 1
RecognizeEventFromOne(l, h, e) ==
    Only({IF m # 0
          THEN [l EXCEPT !.patterns[m].Events = Append(@, e)]
          ELSE [l EXCEPT !.patterns =
                   Append(@, [ID |-> Len(l.patterns) + 1, Events |-> <<e>>,
                              Template |-> <<>>, Frequency |-> EmptyMap])] :
          m \in {FirstMatch(l, h, h[e])}})

\* the body of the loop of patternRecognition for the event at heap index e
RecognizeEvent(l, h, e) ==
    Only({IF m # 0
          THEN [l EXCEPT !.patterns[m].Events = Append(@, e)]
          ELSE [l EXCEPT !.patterns =
                   Append(@, [ID |-> Len(l.patterns), Events |-> <<e>>,
                              Template |-> <<>>, Frequency |-> EmptyMap])] :
          m \in {FirstMatch(l, h, h[e])}})

RECURSIVE patternRecognition(_, _, _)
patternRecognition(l, h, es) ==
    IF es = <<>> THEN l
    ELSE Only({patternRecognition(l1, h, Tail(es)) : l1 \in {RecognizeEvent(l, h, Head(es))}})

-----------------------------------------------------------------------------
(* Sorting                                                                 *)

countDynamicTokens(event) ==
    Cardinality({i \in DOMAIN event.Tokens : ~isAlphabeticalToken(event.Tokens[i])})

\* EventLess without the secondary sort keys
EventLessNoTieBreak(strategy, a, b) ==
    IF strategy = SortByLength THEN Len(a.Tokens) < Len(b.Tokens)
    ELSE IF strategy = SortLexical THEN StrLess(a.Content, b.Content)
    ELSE countDynamicTokens(a) < countDynamicTokens(b)

\* the less function handed to sort.Slice, per strategy
EventLess(strategy, a, b) ==
    IF strategy = SortByLength
        THEN IF Len(a.Tokens) # Len(b.Tokens) THEN Len(a.Tokens) < Len(b.Tokens)
             ELSE StrLess(a.Content, b.Content)
    ELSE IF strategy = SortLexical
        THEN IF a.Content # b.Content THEN StrLess(a.Content, b.Content)
             ELSE StrLess(a.Raw, b.Raw)
    ELSE IF countDynamicTokens(a) # countDynamicTokens(b)
             THEN countDynamicTokens(a) < countDynamicTokens(b)
         ELSE StrLess(a.Content, b.Content)

RECURSIVE Perms(_)
Perms(es) ==
    IF es = <<>> THEN {<<>>}
    ELSE UNION {{<<es[i]>> \o p :
                    p \in Perms(SubSeq(es, 1, i - 1) \o SubSeq(es, i + 1, Len(es)))} :
                i \in DOMAIN es}

\* a sort that returns the events as they are
sortEventsInPatternUnsorted(strategy, h, es) == {es}

\* a sort that keeps the first event only
sortEventsInPatternFirst(strategy, h, es) == {SubSeq(es, 1, 1)}

\* What sortEventsInPattern may return.  sort.Slice is not stable: it leaves
\* some permutation in which no event is less than an earlier one, and which
\* one is not specified for events that compare equal.
sortEventsInPattern(strategy, h, es) ==
    IF strategy \notin {SortByLength, SortLexical, SortByDynTokens} THEN {es}
    ELSE {p \in Perms(es) :
            \A i, j \in DOMAIN p : i < j => ~EventLess(strategy, h[p[j]], h[p[i]])}

-----------------------------------------------------------------------------
(* Frequency analysis                                                      *)

MapGet(m, k) == IF k \in DOMAIN m THEN m[k] ELSE 0

\* pattern.Frequency after the counting loop
CountTokens(h, es) ==
    LET toks == UNION {{h[es[i]].Tokens[k] : k \in DOMAIN h[es[i]].Tokens} : i \in DOMAIN es}
    IN  [t \in toks |->
            SumSeq([i \in DOMAIN es |->
                      Cardinality({k \in DOMAIN h[es[i]].Tokens : h[es[i]].Tokens[k] = t})])]

\* the values of a map in ascending order (sort.Ints of the collected values)
RECURSIVE SortedValues(_, _)
SortedValues(m, keys) ==
    IF keys = {} THEN <<>>
    ELSE LET k == CHOOSE x \in keys : \A y \in keys : m[x] <= m[y]
         IN  <<m[k]>> \o SortedValues(m, keys \ {k})

Min(set) == CHOOSE x \in set : \A y \in set : x <= y

\* the threshold of FreqAll, whatever the strategy
chooseFreqThresholdGroupSize(config, frequency, groupSize) == groupSize

\* a threshold of two occurrences, whatever the strategy and the group
chooseFreqThresholdFixed(config, frequency, groupSize) == 2

chooseFreqThreshold(config, frequency, groupSize) ==
    LET n == Cardinality(DOMAIN frequency)
        frequencies == SortedValues(frequency, DOMAIN frequency)
        mid == n \div 2
    IN  IF config.FreqThresholdStrategy = FreqMin
            THEN IF n = 0 THEN 1
                 ELSE Min({groupSize} \cup {frequency[t] : t \in DOMAIN frequency})
        ELSE IF config.FreqThresholdStrategy = FreqMedian
            THEN IF n = 0 THEN 1
                 ELSE IF n % 2 = 0 THEN (frequencies[mid] + frequencies[mid + 1]) \div 2
                 ELSE frequencies[mid + 1]
        ELSE IF config.FreqThresholdStrategy = FreqPercentile
            THEN IF n = 0 THEN 1
                 ELSE frequencies[((n - 1) * config.FreqPercentile) \div 10 + 1]
        ELSE groupSize

\* generateTemplate that keeps a literal token only above the threshold
generateTemplateStrict(event, frequency, freqThreshold) ==
    Join([i \in DOMAIN event.Tokens |->
            IF event.Tokens[i] = Placeholder THEN event.Tokens[i]
            ELSE IF MapGet(frequency, event.Tokens[i]) > freqThreshold THEN event.Tokens[i]
            ELSE Placeholder])

generateTemplate(event, frequency, freqThreshold) ==
    Join([i \in DOMAIN event.Tokens |->
            IF event.Tokens[i] = Placeholder THEN event.Tokens[i]
            ELSE IF MapGet(frequency, event.Tokens[i]) >= freqThreshold THEN event.Tokens[i]
            ELSE Placeholder])

CountPlaceholders(tokens) == Cardinality({i \in DOMAIN tokens : tokens[i] = Placeholder})

\* hasExcessivePlaceholders with >= in the place of >
hasExcessivePlaceholdersInclusive(config, template) ==
    LET tokens == Fields(template)
    IN  IF Len(tokens) = 0 THEN FALSE
        ELSE CountPlaceholders(tokens) * 10 >= config.MaxPlaceholderRatio * Len(tokens)

hasExcessivePlaceholders(config, template) ==
    LET tokens == Fields(template)
    IN  IF Len(tokens) = 0 THEN FALSE
        ELSE CountPlaceholders(tokens) * 10 > config.MaxPlaceholderRatio * Len(tokens)

\* the template frequencyAnalysis gives a pattern whose events, as sorted, are es
PatternTemplate(config, h, es) ==
    IF Len(es) < config.MinGroupSize /\ ~config.ApplyFreqAnalysisToSmallGroups
    THEN h[es[1]].Content
    ELSE Only({Only({IF hasExcessivePlaceholders(config, template) THEN h[es[1]].Content
                     ELSE template :
                     template \in {generateTemplate(h[es[1]], frequency,
                                       chooseFreqThreshold(config, frequency, Len(es)))}}) :
               frequency \in {CountTokens(h, es)}})

\* one iteration of the loop of frequencyAnalysis, on pattern k, with the
\* order sorted that sortEventsInPattern returned: the patterns and the heap
AnalysePattern(l, h, k, sorted) ==
    LET small == /\ Len(sorted) < l.config.MinGroupSize
                 /\ ~l.config.ApplyFreqAnalysisToSmallGroups
    IN  Only({[lp |-> [l EXCEPT !.patterns[k] =
                         [@ EXCEPT !.Events = sorted,
                                   !.Template = template,
                                   !.Frequency = IF small THEN @
                                                 ELSE CountTokens(h, sorted)]],
               heap |-> [e \in DOMAIN h |->
                           IF \E i \in DOMAIN sorted : sorted[i] = e
                           THEN [h[e] EXCEPT !.Template = template] ELSE h[e]]] :
              template \in {PatternTemplate(l.config, h, sorted)}})

\* frequencyAnalysis from pattern k on: the states it may end in
RECURSIVE frequencyAnalysisFrom(_, _, _)
frequencyAnalysisFrom(l, h, k) ==
    IF k > Len(l.patterns) THEN {[lp |-> l, heap |-> h]}
    ELSE IF Len(l.patterns[k].Events) = 0 THEN frequencyAnalysisFrom(l, h, k + 1)
    ELSE UNION {frequencyAnalysisFrom(st.lp, st.heap, k + 1) :
                st \in {AnalysePattern(l, h, k, sorted) :
                           sorted \in sortEventsInPattern(l.config.SortingStrategy, h,
                                                          l.patterns[k].Events)}}

frequencyAnalysis(l, h) == frequencyAnalysisFrom(l, h, 1)

-----------------------------------------------------------------------------
(* Bounds and inputs                                                       *)

MaxLines == 2        \* lines in one Parse call
MaxEvents == 3       \* events one instance holds
MaxParseCalls == 2   \* Parse calls on one instance
MaxConfigCalls == 1  \* WithConfig calls in one run
PairBatch == 3       \* lines two instances parse side by side
ThresholdBatch == 5  \* lines parsed under two thresholds
MaxTokens == 4       \* tokens of a line whose template is cleaned
MaxPasses == 2       \* cleanup passes over one template
RepeatBatch == 2     \* lines parsed twice by one instance
FreqBatch == 3       \* lines of the Parse call whose frequency analysis is examined

\* The log lines of the runs.
LineAb1 == <<"a", "b", " ", "1">>
LineAb2 == <<" ", "a", "b", " ", "2", "\t">>
LineNum == <<"1", " ", "1">>
LineX == <<"a", "b", "c", "d", " ", "(", "x", ")">>
LineY == <<"a", "b", "c", "d", " ", "(", "y", ")">>
LineUnits == <<"a", " ", "1", "s", " ", "2", "s">>
LineBlank == <<" ", "\t">>
LineAb1Padded == <<"a", "b", " ", "1", " ">>

Lines == {LineAb1, LineAb2, LineNum, LineX, LineY, LineUnits, LineBlank, LineAb1Padded}

\* lines of 1, 2, 3 and 4 letters
ThresholdLines == {<<"a">>, <<"a", "b">>, <<"a", "b", "c">>, <<"a", "b", "c", "d">>}

\* lines that compare equal under a sorting key, and lines that do not
PairLines == {<<"a", "b", " ", "x">>, <<"a", "b", " ", "y">>, LineX, LineY}

\* lines one instance parses twice: some share a letter count, a token
\* count or their content
RepeatLines == PairLines \cup ThresholdLines \cup {LineAb1, LineNum}

\* lines of four letters each, so that a threshold of 1.0 groups them (a
\* token twice in one line, tokens shared and not shared, a placeholder from
\* preprocessing, a number), and a line of two letters
LineRepeat == <<"a", "b", " ", "x", " ", "x">>
LineAbCd == <<"a", "b", " ", "c", "d">>
LineAbEf == <<"a", "b", " ", "e", "f">>
LineAbcd == <<"a", "b", "c", "d">>
LineAbcd1 == <<"a", "b", "c", "d", " ", "1">>
LineAbParen == <<"a", "b", " ", "(", "x", ")">>
LineAbCdParen == <<"a", "b", " ", "c", "d", " ", "(", "x", ")">>
LineAbCdParenY == <<"a", "b", " ", "c", "d", " ", "(", "y", ")">>
FreqLines == {LineRepeat, LineAbCd, LineAbEf, LineAbcd, LineAbcd1, LineAbCdParen, LineAbCdParenY,
              LineAbParen}

\* the configurations of the instance whose frequency analysis is examined
FreqConfigs ==
    {[ZeroConfig EXCEPT !.FreqThresholdStrategy = s, !.MaxPlaceholderRatio = r,
                        !.ApplyFreqAnalysisToSmallGroups = TRUE] :
        s \in {FreqMin, FreqMedian, FreqPercentile, FreqAll}, r \in {9, 5}}
    \cup {[ZeroConfig EXCEPT !.SortingStrategy = st] :
             st \in {SortByLength, SortLexical, SortByDynTokens}}
    \cup {[ZeroConfig EXCEPT !.StrictAlphabeticalMatching = TRUE, !.MinSimilarity = t] :
             t \in {10, 5}}
    \cup {[ZeroConfig EXCEPT !.MinSimilarity = 5],
          [ZeroConfig EXCEPT !.MinGroupSize = 2],
          [ZeroConfig EXCEPT !.FreqThresholdStrategy = FreqAll,
                             !.SortingStrategy = SortByLength,
                             !.ApplyFreqAnalysisToSmallGroups = TRUE]}

\* the tokens of the lines whose template the cleanup passes rewrite
CleanupTokens == {<<"a">>, <<"1">>, <<"1", "s">>, <<"b", "_", "1">>, <<"0", "x", "1">>}

\* the sequences of at most n members of set
RECURSIVE LineSeqs(_, _)
LineSeqs(set, n) ==
    IF n = 0 THEN {<<>>}
    ELSE UNION {shorter \cup {Append(q, x) : q \in {q \in shorter : Len(q) = n - 1},
                                           x \in set} :
                shorter \in {LineSeqs(set, n - 1)}}

CleanupLines == {Join(q) : q \in LineSeqs(CleanupTokens, MaxTokens) \ {<<>>}}

\* The configurations handed to WithConfig: partial configurations.
ConfigInputs ==
    { ZeroConfig,
      [ZeroConfig EXCEPT !.SortingStrategy = SortByLength],
      [ZeroConfig EXCEPT !.SortingStrategy = SortLexical],
      [ZeroConfig EXCEPT !.SortingStrategy = SortByDynTokens],
      [ZeroConfig EXCEPT !.MinSimilarity = 5],
      [ZeroConfig EXCEPT !.MinGroupSize = 2],
      [ZeroConfig EXCEPT !.StrictAlphabeticalMatching = TRUE,
                         !.ApplyFreqAnalysisToSmallGroups = TRUE],
      [ZeroConfig EXCEPT !.FreqThresholdStrategy = FreqAll,
                         !.ApplyFreqAnalysisToSmallGroups = TRUE],
      [ZeroConfig EXCEPT !.FreqThresholdStrategy = FreqAll, !.MaxPlaceholderRatio = 4,
                         !.ApplyFreqAnalysisToSmallGroups = TRUE],
      [ZeroConfig EXCEPT !.FreqThresholdStrategy = FreqMedian],
      [ZeroConfig EXCEPT !.FreqThresholdStrategy = FreqPercentile, !.FreqPercentile = 10],
      \* the "Strict Paper Compliance Configuration" of the README
      [ZeroConfig EXCEPT !.MinSimilarity = 10, !.MinGroupSize = 1,
                         !.MaxPlaceholderRatio = 10, !.MinTemplateTokens = 0,
                         !.FreqThresholdStrategy = FreqMin,
                         !.ApplyFreqAnalysisToSmallGroups = TRUE],
      [ZeroConfig EXCEPT !.MinSimilarity = 15],
      [ZeroConfig EXCEPT !.CustomRegexes = <<ReTestId, ReInvalid>>] }

\* More of them, valid and invalid in every way WithConfig tests.
ConfigSpace ==
    ConfigInputs \cup
    { \* "Valid full config" of TestWithConfig
      [ZeroConfig EXCEPT !.MinSimilarity = 8, !.SortingStrategy = SortByLength,
                         !.HeaderRegex = ReHDFSHeader, !.CustomRegexes = <<ReTestId>>],
      [ZeroConfig EXCEPT !.CustomRegexes = <<ReTestId, ReUserId>>],
      [ZeroConfig EXCEPT !.HeaderRegex = ReInvalid],
      [ZeroConfig EXCEPT !.HeaderRegex = ReInvalid, !.CustomRegexes = <<ReInvalid>>],
      [ZeroConfig EXCEPT !.CustomRegexes = <<ReInvalid>>],
      [ZeroConfig EXCEPT !.MinSimilarity = -1],
      [ZeroConfig EXCEPT !.MinSimilarity = 10],
      [ZeroConfig EXCEPT !.MinSimilarity = 11],
      [ZeroConfig EXCEPT !.MinGroupSize = -1],
      [ZeroConfig EXCEPT !.MinGroupSize = 1],
      [ZeroConfig EXCEPT !.MaxPlaceholderRatio = -1],
      [ZeroConfig EXCEPT !.MaxPlaceholderRatio = 10],
      [ZeroConfig EXCEPT !.MaxPlaceholderRatio = 11],
      [ZeroConfig EXCEPT !.MinTemplateTokens = -1],
      [ZeroConfig EXCEPT !.MinTemplateTokens = 2],
      [ZeroConfig EXCEPT !.FreqPercentile = -1],
      [ZeroConfig EXCEPT !.FreqPercentile = 11],
      [ZeroConfig EXCEPT !.MinSimilarity = 11, !.CustomRegexes = <<ReInvalid>>],
      DefaultConfig }

\* the similarity thresholds two instances are compared under
Thresholds == {3, 6, 10}

\* The configurations of two instances run side by side: the same one with
\* each sorting strategy, or two that differ in MinSimilarity only.
PairConfigs ==
    {<<[ZeroConfig EXCEPT !.SortingStrategy = st], [ZeroConfig EXCEPT !.SortingStrategy = st]>> :
        st \in {SortNone, SortByLength, SortLexical, SortByDynTokens}}
    \cup {<<[ZeroConfig EXCEPT !.MinSimilarity = t[1]], [ZeroConfig EXCEPT !.MinSimilarity = t[2]]>> :
            t \in {u \in Thresholds \X Thresholds : u[1] < u[2]}}

\* "Limit individual line length": the cap on a trimmed line
maxLineLength == 10000

\* the lines Parse keeps: trimmed, non-empty, cut at maxLineLength
RECURSIVE KeptLines(_)
KeptLines(lines) ==
    IF lines = <<>> THEN <<>>
    ELSE LET line == TrimSpace(Head(lines))
         IN  (IF line # <<>>
              THEN <<IF Len(line) > maxLineLength THEN SubSeq(line, 1, maxLineLength)
                     ELSE line>>
              ELSE <<>>) \o KeptLines(Tail(lines))

\* What Preprocess reads of the instance: its compiled expressions.
Compiled(l) == [headerRegex |-> l.headerRegex, customRegexes |-> l.customRegexes]

\* compiled expressions an instance can hold: those of NewAWSOMLP and those a
\* WithConfig call leaves behind
CompiledSettings ==
    {Compiled(NewAWSOMLP)} \cup {Compiled(WithConfig(NewAWSOMLP, c).lp) : c \in ConfigInputs}

\* lp.Preprocess of the lines of the runs under these settings, computed once
Preprocessed ==
    Only({[k \in {d[1] : d \in done} |-> (CHOOSE d \in done : d[1] = k)[2]] :
          done \in {{<<k, Preprocess(k[1], k[2])>> :
                       k \in CompiledSettings \X
                             UNION {{kept[i] : i \in DOMAIN kept} :
                                    kept \in {KeptLines(<<x>>) :
                                                x \in Lines \cup ThresholdLines \cup PairLines
                                                      \cup FreqLines}}}}})

\* "Step 1: Preprocessing": the events built from the lines
NewEvents(l, lines) ==
    [i \in DOMAIN KeptLines(lines) |->
        Only({IF k \in DOMAIN Preprocessed THEN Preprocessed[k] ELSE Preprocess(l, k[2]) :
              k \in {<<Compiled(l), KeptLines(lines)[i]>>}})]

-----------------------------------------------------------------------------
(* Numeric cleanup, Parse, GetTemplates                                    *)

\* the strings frequencyAnalysis can write as a template: the tokens of an
\* event with any of them replaced, or the Content of an event
GeneratedTemplates ==
    UNION {{ev.Content, <<>>} \cup
           {Join([i \in DOMAIN ev.Tokens |-> IF i \in m THEN Placeholder ELSE ev.Tokens[i]]) :
               m \in SUBSET DOMAIN ev.Tokens} :
           ev \in {Preprocessed[k] : k \in DOMAIN Preprocessed}}

\* the cleanup loop over numericalPatterns on each of them, computed once
Cleaned ==
    Only({[t \in {d[1] : d \in done} |-> (CHOOSE d \in done : d[1] = t)[2]] :
          done \in {{<<t, NumericCleanup(t)>> : t \in GeneratedTemplates}}})

replaceRemainingNumericalVariables(l, h) ==
    Only({[lp |-> [l EXCEPT !.patterns = ps],
           heap |-> [e \in DOMAIN h |->
                       LET owners == {k \in DOMAIN ps :
                                        \E i \in DOMAIN ps[k].Events : ps[k].Events[i] = e}
                       IN  IF owners = {} THEN h[e]
                           ELSE [h[e] EXCEPT !.Template = ps[Max(owners)].Template]]] :
          ps \in {[k \in DOMAIN l.patterns |->
                     [l.patterns[k] EXCEPT !.Template =
                         IF @ \in DOMAIN Cleaned THEN Cleaned[@] ELSE NumericCleanup(@)]]}})

\* the template Parse reports for an event
ResultTemplate(event) ==
    IF TrimSpace(event.Template) # <<>> THEN TrimSpace(event.Template)
    ELSE IF TrimSpace(event.Content) # <<>> THEN TrimSpace(event.Content)
    ELSE TrimSpace(event.Raw)

\* the map Parse returns for the events es of this call
BuildResults(h, es) ==
    [raw \in {h[es[i]].Raw : i \in DOMAIN es} |->
        LET i == Max({j \in DOMAIN es : h[es[j]].Raw = raw})
        IN  ResultTemplate(h[es[i]])]

\* isValidTemplate without the count of real tokens
isValidTemplateAny(config, template) == template # <<>>

isValidTemplate(config, template) ==
    IF template = <<>> THEN FALSE
    ELSE LET tokens == Fields(template)
         IN  IF Len(tokens) = 0 THEN FALSE
             ELSE Len(tokens) - CountPlaceholders(tokens) >= config.MinTemplateTokens

\* sort.Strings on distinct strings
RECURSIVE SortStrings(_)
SortStrings(set) ==
    IF set = {} THEN <<>>
    ELSE LET m == CHOOSE x \in set : \A y \in set : y = x \/ StrLess(x, y)
         IN  <<m>> \o SortStrings(set \ {m})

GetTemplates(l) ==
    SortStrings({TrimSpace(l.patterns[k].Template) : k \in
                    {k \in DOMAIN l.patterns :
                        isValidTemplate(l.config, TrimSpace(l.patterns[k].Template))}})

\* lp.Parse(lines) on instance l with heap h, for non-nil lines: the states
\* it may end in, with the map and the events of the call
Parse(l, h, lines) ==
    LET evs == NewEvents(l, lines)
        h1 == h \o evs
        es == [i \in DOMAIN evs |-> Len(h) + i]
    IN  {[lp |-> st.lp, heap |-> st.heap, results |-> BuildResults(st.heap, es)] :
         st \in {replaceRemainingNumericalVariables(a.lp, a.heap) :
                    a \in frequencyAnalysis(patternRecognition(l, h1, es), h1)}}

-----------------------------------------------------------------------------
(* The instance and its calls                                              *)

Init ==
    /\ lp = NewAWSOMLP
    /\ heap = <<>>
    /\ pc = "idle"
    /\ events = <<>>
    /\ next = 0
    /\ logLines = <<>>
    /\ results = EmptyMap
    /\ templates = <<>>
    /\ cfgArg = ZeroConfig
    /\ err = ""
    /\ last = "NewAWSOMLP"
    /\ calls = [Parse |-> 0, WithConfig |-> 0]
    /\ lp2 = NewAWSOMLP
    /\ heap2 = <<>>
    /\ results2 = EmptyMap
    /\ templates2 = <<>>

Second == <<lp2, heap2, results2, templates2>>

\* lp.WithConfig(config)
WithConfigCall(config) ==
    /\ pc = "idle"
    /\ calls.WithConfig < MaxConfigCalls
    /\ LET r == WithConfig(lp, config)
       IN  /\ lp' = r.lp
           /\ err' = r.err
    /\ cfgArg' = config
    /\ last' = "WithConfig"
    /\ calls' = [calls EXCEPT !.WithConfig = @ + 1]
    /\ results' = EmptyMap
    /\ templates' = <<>>
    /\ logLines' = <<>>
    /\ events' = <<>>
    /\ next' = 0
    /\ UNCHANGED <<heap, pc, Second>>

\* lp.Parse(nil): "Input validation"
ParseNil ==
    /\ pc = "idle"
    /\ calls.Parse < MaxParseCalls
    /\ results' = EmptyMap
    /\ last' = "Parse"
    /\ calls' = [calls EXCEPT !.Parse = @ + 1]
    /\ logLines' = <<>>
    /\ events' = <<>>
    /\ next' = 0
    /\ templates' = <<>>
    /\ UNCHANGED <<lp, heap, pc, cfgArg, err, Second>>

\* lp.Parse(lines), "Step 1: Preprocessing"
ParseStart(lines) ==
    /\ pc = "idle"
    /\ calls.Parse < MaxParseCalls
    /\ Len(heap) + Len(KeptLines(lines)) <= MaxEvents
    /\ LET evs == NewEvents(lp, lines)
       IN  /\ heap' = heap \o evs
           /\ events' = [i \in DOMAIN evs |-> Len(heap) + i]
    /\ next' = 1
    /\ logLines' = lines
    /\ pc' = "recognize"
    /\ calls' = [calls EXCEPT !.Parse = @ + 1]
    /\ results' = EmptyMap
    /\ templates' = <<>>
    /\ last' = "ParseStart"
    /\ UNCHANGED <<lp, cfgArg, err, Second>>

\* "Step 2: Pattern recognition", one event
ParseRecognize ==
    /\ pc = "recognize"
    /\ next <= Len(events)
    /\ lp' = RecognizeEvent(lp, heap, events[next])
    /\ next' = next + 1
    /\ UNCHANGED <<heap, pc, events, logLines, results, templates, cfgArg, err, last,
                   calls, Second>>

\* "Step 3: Frequency analysis"
ParseFrequency ==
    /\ pc = "recognize"
    /\ next > Len(events)
    /\ \E st \in frequencyAnalysis(lp, heap) :
          /\ lp' = st.lp
          /\ heap' = st.heap
    /\ pc' = "cleanup"
    /\ UNCHANGED <<events, next, logLines, results, templates, cfgArg, err, last,
                   calls, Second>>

\* "Step 4: Replace remaining numerical variables"
ParseCleanup ==
    /\ pc = "cleanup"
    /\ LET st == replaceRemainingNumericalVariables(lp, heap)
       IN  /\ lp' = st.lp
           /\ heap' = st.heap
    /\ pc' = "return"
    /\ UNCHANGED <<events, next, logLines, results, templates, cfgArg, err, last,
                   calls, Second>>

\* "Return results"
ParseReturn ==
    /\ pc = "return"
    /\ results' = BuildResults(heap, events)
    /\ pc' = "idle"
    /\ last' = "Parse"
    /\ UNCHANGED <<lp, heap, events, next, logLines, templates, cfgArg, err, calls,
                   Second>>

\* lp.GetTemplates()
GetTemplatesCall ==
    /\ pc = "idle"
    /\ templates' = GetTemplates(lp)
    /\ last' = "GetTemplates"
    /\ UNCHANGED <<lp, heap, pc, events, next, logLines, results, cfgArg, err, calls,
                   Second>>

Next ==
    \/ \E config \in ConfigInputs : WithConfigCall(config)
    \/ ParseNil
    \/ \E lines \in LineSeqs(Lines, MaxLines) : ParseStart(lines)
    \/ ParseRecognize
    \/ ParseFrequency
    \/ ParseCleanup
    \/ ParseReturn
    \/ GetTemplatesCall

Spec == Init /\ [][Next]_vars

-----------------------------------------------------------------------------
(* Properties of Parse and GetTemplates, under Spec                        *)

\* Parse has returned
Returned == pc = "idle" /\ last = "Parse"

PlaceholderRatioWithin(template, ratio) ==
    CountPlaceholders(Fields(template)) * 10 <= ratio * Len(Fields(template))

\* C1: every line handed to Parse that is not empty after trimming is a key
\* of the returned map, and its value is a non-empty string.
C1_Totality ==
    Returned =>
        \A i \in DOMAIN logLines :
            TrimSpace(logLines[i]) # <<>> =>
                /\ logLines[i] \in DOMAIN results
                /\ results[logLines[i]] # <<>>

\* C2: no template Parse returns has more placeholder tokens, as a share of
\* its tokens, than the configured MaxPlaceholderRatio.
C2_PlaceholderRatio ==
    Returned =>
        \A raw \in DOMAIN results :
            PlaceholderRatioWithin(results[raw], lp.config.MaxPlaceholderRatio)

\* C8: once WithConfig has accepted a configuration with MinTemplateTokens 0,
\* GetTemplates returns the template of every pattern that has a non-empty
\* one, however few tokens of it are not placeholders.
C8_NoMinimumTokens ==
    (/\ last = "GetTemplates"
     /\ calls.WithConfig > 0
     /\ err = ""
     /\ cfgArg.MinTemplateTokens = 0) =>
        \A k \in DOMAIN lp.patterns :
            TrimSpace(lp.patterns[k].Template) # <<>> =>
                \E i \in DOMAIN templates : templates[i] = TrimSpace(lp.patterns[k].Template)

\* the patterns whose first event is at least MinSimilarity similar to event e
Qualifying(e) ==
    {k \in DOMAIN lp.patterns :
        /\ Len(lp.patterns[k].Events) > 0
        /\ calculateSimilarity(lp.config, heap[e], heap[lp.patterns[k].Events[1]]).num * 10
             >= lp.config.MinSimilarity
                  * calculateSimilarity(lp.config, heap[e],
                                        heap[lp.patterns[k].Events[1]]).den}

\* C10: the event a recognition step handles is appended to the earliest
\* pattern whose first event is similar enough to it (a similarity equal to
\* MinSimilarity is enough) and to no other; when there is none, one pattern is
\* added, with that event alone and the number of patterns so far as its ID.
C10_FirstFit ==
    [][(pc = "recognize" /\ next' = next + 1) =>
         IF Qualifying(events[next]) # {}
         THEN lp'.patterns =
                [k \in DOMAIN lp.patterns |->
                    IF k = Min(Qualifying(events[next]))
                    THEN [lp.patterns[k] EXCEPT !.Events = Append(@, events[next])]
                    ELSE lp.patterns[k]]
         ELSE lp'.patterns =
                Append(lp.patterns,
                       [ID |-> Len(lp.patterns), Events |-> <<events[next]>>,
                        Template |-> <<>>, Frequency |-> EmptyMap])]_vars

\* C10 happens: an event has joined a pattern although a later pattern
\* qualifies too, with a similarity of exactly MinSimilarity
C10_Witness ==
    /\ pc = "recognize"
    /\ next > 1
    /\ lp.config.MinSimilarity < 10
    /\ \E k, j \in DOMAIN lp.patterns :
          /\ k < j
          /\ Len(lp.patterns[k].Events) > 1
          /\ lp.patterns[k].Events[Len(lp.patterns[k].Events)] = events[next - 1]
          /\ calculateSimilarity(lp.config, heap[events[next - 1]],
                                 heap[lp.patterns[k].Events[1]])
               = [num |-> 1, den |-> 2]
          /\ MeetsThreshold(calculateSimilarity(lp.config, heap[events[next - 1]],
                                                heap[lp.patterns[j].Events[1]]),
                            lp.config.MinSimilarity)

-----------------------------------------------------------------------------
(* WithConfig on a new or an already configured instance                   *)

InitConfig ==
    /\ lp \in {NewAWSOMLP} \cup
              {st.lp : st \in {st \in {WithConfig(NewAWSOMLP, c) : c \in ConfigSpace} :
                                 st.err = ""}}
    /\ heap = <<>>
    /\ pc = "idle"
    /\ events = <<>>
    /\ next = 0
    /\ logLines = <<>>
    /\ results = EmptyMap
    /\ templates = <<>>
    /\ cfgArg = ZeroConfig
    /\ err = ""
    /\ last = "NewAWSOMLP"
    /\ calls = [Parse |-> 0, WithConfig |-> 0]
    /\ lp2 = NewAWSOMLP
    /\ heap2 = <<>>
    /\ results2 = EmptyMap
    /\ templates2 = <<>>

NextConfig == \E config \in ConfigSpace : WithConfigCall(config)

SpecConfig == InitConfig /\ [][NextConfig]_vars

\* WithConfig has returned
Configured == last = "WithConfig"

\* C4: a WithConfig call that returns an error leaves the effective
\* configuration, the compiled header expression and the compiled custom
\* expressions as they were before the call.
C4_ErrorKeepsState ==
    [][(last' = "WithConfig" /\ err' # "") =>
         /\ lp'.config = lp.config
         /\ lp'.headerRegex = lp.headerRegex
         /\ lp'.customRegexes = lp.customRegexes]_vars

\* C7: after a successful WithConfig, every field the caller left at its
\* zero value has the value DefaultConfig gives it.
C7_ZeroFieldsGetDefaults ==
    (Configured /\ err = "") =>
        \A f \in DOMAIN cfgArg :
            cfgArg[f] = ZeroConfig[f] => lp.config[f] = DefaultConfig[f]

\* the supplied configuration after default filling
C9_Filled ==
    [cfgArg EXCEPT
        !.MinSimilarity = IF @ = 0 THEN 10 ELSE @,
        !.HeaderRegex = IF @ = "" THEN ReDefaultHeader ELSE @,
        !.MinGroupSize = IF @ = 0 THEN 1 ELSE @,
        !.MaxPlaceholderRatio = IF @ = 0 THEN 9 ELSE @,
        !.MinTemplateTokens = IF @ = 0 THEN 1 ELSE @,
        !.FreqPercentile = IF @ = 0 THEN 5 ELSE @]

C9_Rejected ==
    \/ C9_Filled.MinSimilarity \notin 0..10
    \/ C9_Filled.MaxPlaceholderRatio \notin 0..10
    \/ C9_Filled.FreqPercentile \notin 0..10
    \/ C9_Filled.MinGroupSize < 1
    \/ C9_Filled.MinTemplateTokens < 0
    \/ ~Compiles(C9_Filled.HeaderRegex)
    \/ \E i \in DOMAIN C9_Filled.CustomRegexes : ~Compiles(C9_Filled.CustomRegexes[i])

-----------------------------------------------------------------------------
(* Two new instances parse the same lines, one after the other             *)

PairInputs == LineSeqs(PairLines, PairBatch) \cup LineSeqs(ThresholdLines, ThresholdBatch)

\* a batch the instances sort has at most PairBatch lines
InitPair ==
    /\ \E cs \in PairConfigs :
          /\ lp = WithConfig(NewAWSOMLP, cs[1]).lp
          /\ lp2 = WithConfig(NewAWSOMLP, cs[2]).lp
          /\ logLines \in {q \in PairInputs :
                              cs[1].SortingStrategy # SortNone => Len(q) <= PairBatch}
    /\ heap = <<>>
    /\ heap2 = <<>>
    /\ pc = "first"
    /\ events = <<>>
    /\ next = 0
    /\ results = EmptyMap
    /\ results2 = EmptyMap
    /\ templates = <<>>
    /\ templates2 = <<>>
    /\ cfgArg = ZeroConfig
    /\ err = ""
    /\ last = "WithConfig"
    /\ calls = [Parse |-> 0, WithConfig |-> 1]

\* results := lp.Parse(logLines) on the first instance
FirstParse ==
    /\ pc = "first"
    /\ \E st \in Parse(lp, heap, logLines) :
          /\ lp' = st.lp
          /\ heap' = st.heap
          /\ results' = st.results
    /\ pc' = "firstTemplates"
    /\ UNCHANGED <<events, next, logLines, templates, cfgArg, err, last, calls, Second>>

\* lp.GetTemplates() on the first instance
FirstGetTemplates ==
    /\ pc = "firstTemplates"
    /\ templates' = GetTemplates(lp)
    /\ pc' = "second"
    /\ UNCHANGED <<lp, heap, events, next, logLines, results, cfgArg, err, last, calls,
                   Second>>

\* the same Parse call on the second instance
SecondParse ==
    /\ pc = "second"
    /\ \E st \in Parse(lp2, heap2, logLines) :
          /\ lp2' = st.lp
          /\ heap2' = st.heap
          /\ results2' = st.results
    /\ pc' = "secondTemplates"
    /\ UNCHANGED <<lp, heap, events, next, logLines, results, templates, cfgArg, err,
                   last, calls, templates2>>

\* GetTemplates on the second instance
SecondGetTemplates ==
    /\ pc = "secondTemplates"
    /\ templates2' = GetTemplates(lp2)
    /\ pc' = "done"
    /\ UNCHANGED <<lp, heap, events, next, logLines, results, templates, cfgArg, err,
                   last, calls, lp2, heap2, results2>>

NextPair == FirstParse \/ FirstGetTemplates \/ SecondParse \/ SecondGetTemplates

SpecPair == InitPair /\ [][NextPair]_vars

\* both instances are done, and the second has the configuration of the
\* first but for a similarity threshold that is at least as high
ThresholdRaised ==
    /\ pc = "done"
    /\ [lp2.config EXCEPT !.MinSimilarity = lp.config.MinSimilarity] = lp.config
    /\ lp.config.MinSimilarity <= lp2.config.MinSimilarity

\* the number of events of the largest pattern
Largest(l) == Max({0} \cup {Len(l.patterns[k].Events) : k \in DOMAIN l.patterns})

\* C3 as stated: under the higher threshold the largest pattern has no more
\* events than the largest pattern under the lower one.
C3_LargestPatternMonotone == ThresholdRaised => Largest(lp2) <= Largest(lp)

\* C3 as amended: under the higher threshold the pattern created first has
\* no more events than the pattern created first under the lower one.
C3_FirstPatternMonotone ==
    (ThresholdRaised /\ lp.patterns # <<>>) =>
        /\ lp2.patterns # <<>>
        /\ Len(lp2.patterns[1].Events) <= Len(lp.patterns[1].Events)

\* C3 happens: raising the threshold has taken events from the first pattern
C3_Witness ==
    /\ ThresholdRaised
    /\ lp.config.MinSimilarity < lp2.config.MinSimilarity
    /\ lp.patterns # <<>>
    /\ Len(lp2.patterns[1].Events) < Len(lp.patterns[1].Events)
    /\ Len(lp2.patterns[1].Events) > 1

\* C6: two new instances with one configuration, whatever its sorting
\* strategy, return the same map from Parse and the same list from
\* GetTemplates for the same lines, wherever the sort puts equal events.
C6_Determinism ==
    (pc = "done" /\ lp.config = lp2.config) =>
        /\ results = results2
        /\ templates = templates2

\* C6 happens: the sort has ordered the events of a pattern differently in
\* the two instances
C6_Witness ==
    /\ pc = "done"
    /\ lp.config = lp2.config
    /\ lp.config.SortingStrategy # SortNone
    /\ heap = heap2
    /\ \E k \in DOMAIN lp.patterns :
          /\ k \in DOMAIN lp2.patterns
          /\ lp.patterns[k].Events # lp2.patterns[k].Events
    /\ results # EmptyMap
    /\ templates # <<>>

-----------------------------------------------------------------------------
(* The cleanup pass, run again on the templates it has produced            *)

\* Parse(<<line>>) on a new instance, about to run its step 4
InitCleanup ==
    /\ logLines \in {<<line>> : line \in CleanupLines}
    /\ \E evs \in {NewEvents(NewAWSOMLP, logLines)} :
       \E recognized \in {patternRecognition(NewAWSOMLP, evs, <<1>>)} :
       \E st \in frequencyAnalysis(recognized, evs) :
          /\ lp = st.lp
          /\ heap = st.heap
          /\ templates = <<st.lp.patterns[1].Template>>
    /\ pc = "cleanup"
    /\ events = <<1>>
    /\ next = 2
    /\ results = EmptyMap
    /\ cfgArg = ZeroConfig
    /\ err = ""
    /\ last = "ParseStart"
    /\ calls = [Parse |-> 1, WithConfig |-> 0]
    /\ lp2 = NewAWSOMLP
    /\ heap2 = <<>>
    /\ results2 = EmptyMap
    /\ templates2 = <<>>

\* lp.replaceRemainingNumericalVariables()
CleanupPass ==
    /\ pc = "cleanup"
    /\ Len(templates) <= MaxPasses
    /\ \E st \in {replaceRemainingNumericalVariables(lp, heap)} :
          /\ lp' = st.lp
          /\ heap' = st.heap
          /\ templates' = Append(templates, st.lp.patterns[1].Template)
    /\ UNCHANGED <<pc, events, next, logLines, results, cfgArg, err, last, calls, Second>>

NextCleanup == CleanupPass

SpecCleanup == InitCleanup /\ [][NextCleanup]_vars

\* C5: a second cleanup pass leaves the template of the first pass unchanged.
C5_CleanupIdempotent == Len(templates) >= 3 => templates[3] = templates[2]

-----------------------------------------------------------------------------
(* Properties of the similarity measure and of the result map, under Spec  *)

\* the configuration of the instance with strict alphabetical matching set
WithStrict(strict) == [lp.config EXCEPT !.StrictAlphabeticalMatching = strict]

\* C11: for every two events, calculateSimilarity gives the same value in
\* both argument orders, with strict alphabetical matching off and on, and
\* the value is in [0,1].
C11_SimilaritySymmetric ==
    \A a, b \in DOMAIN heap : \A strict \in BOOLEAN :
        \A s \in {calculateSimilarity(WithStrict(strict), heap[a], heap[b])} :
            /\ s = calculateSimilarity(WithStrict(strict), heap[b], heap[a])
            /\ s.den > 0
            /\ 0 <= s.num
            /\ s.num <= s.den

\* C11 happens: recognition has compared two events with different letter
\* counts, similar in part without strict matching and not at all with it
C11_Witness ==
    /\ pc = "recognize"
    /\ next > 2
    /\ \E a, b \in DOMAIN heap :
          /\ a < b
          /\ \E s \in {calculateSimilarity(WithStrict(FALSE), heap[a], heap[b])} :
                0 < s.num /\ s.num < s.den
          /\ calculateSimilarity(WithStrict(TRUE), heap[a], heap[b]).num = 0
          /\ calculateSimilarity(WithStrict(TRUE), heap[a], heap[a]).num > 0

\* C12: the map Parse returns has as many entries as there are distinct
\* lines in its input that are not empty after trimming.
C12_EntryCount ==
    Returned =>
        Cardinality(DOMAIN results)
          = Cardinality({logLines[i] : i \in {j \in DOMAIN logLines :
                                                TrimSpace(logLines[j]) # <<>>}})

\* a template with tokens, all of them placeholders
Degenerate(template) ==
    /\ Len(Fields(template)) > 0
    /\ CountPlaceholders(Fields(template)) = Len(Fields(template))

\* C14: under the default configuration no template Parse returns is made
\* of placeholders only.
C14_NoDegenerateTemplate ==
    (Returned /\ lp.config = DefaultConfig) =>
        \A raw \in DOMAIN results : ~Degenerate(results[raw])

\* the pattern that holds the event at heap index e
PatternOf(e) ==
    CHOOSE k \in DOMAIN lp.patterns :
        \E i \in DOMAIN lp.patterns[k].Events : lp.patterns[k].Events[i] = e

\* frequencyAnalysis skips the classification for this pattern
SmallGroup(pattern) ==
    /\ Len(pattern.Events) < lp.config.MinGroupSize
    /\ ~lp.config.ApplyFreqAnalysisToSmallGroups

\* C15: for an event of a pattern with fewer events than MinGroupSize, with
\* ApplyFreqAnalysisToSmallGroups false, the template Parse returns is the
\* preprocessed content of the pattern's first event, unchanged.
C15_SmallGroupVerbatim ==
    Returned =>
        \A i \in DOMAIN events :
            SmallGroup(lp.patterns[PatternOf(events[i])]) =>
                results[heap[events[i]].Raw]
                  = TrimSpace(heap[lp.patterns[PatternOf(events[i])].Events[1]].Content)

\* the templates GetTemplates is to return: the trimmed, non-empty templates
\* of the patterns, with at least MinTemplateTokens tokens that are not
\* placeholders
ValidTemplates ==
    {t \in {TrimSpace(lp.patterns[k].Template) : k \in DOMAIN lp.patterns} :
        /\ t # <<>>
        /\ Len(Fields(t)) - CountPlaceholders(Fields(t)) >= lp.config.MinTemplateTokens}

\* C16: the list GetTemplates returns is in strictly ascending string order
\* and holds exactly the trimmed templates of the patterns whose template is
\* not empty and has at least MinTemplateTokens non-placeholder tokens.
C16_GetTemplatesSorted ==
    last = "GetTemplates" =>
        /\ \A i, j \in DOMAIN templates : i < j => StrLess(templates[i], templates[j])
        /\ {templates[i] : i \in DOMAIN templates} = ValidTemplates

\* C16 happens: GetTemplates has returned two templates and left out a pattern
\* whose template has placeholders only
C16_Witness ==
    /\ last = "GetTemplates"
    /\ Len(templates) = 2
    /\ \E k \in DOMAIN lp.patterns :
          /\ Degenerate(lp.patterns[k].Template)
          /\ \A i \in DOMAIN templates : templates[i] # TrimSpace(lp.patterns[k].Template)

\* C17: at every moment the pattern at index i has ID i and at least one
\* event.  (Sequences are indexed from 1 here, GetPatterns from 0.)
C17_PatternIds ==
    \A k \in DOMAIN lp.patterns :
        /\ lp.patterns[k].ID = k - 1
        /\ lp.patterns[k].Events # <<>>

\* C17 happens: two Parse calls have left three patterns
C17_Witness ==
    /\ Returned
    /\ calls.Parse = 2
    /\ Len(lp.patterns) = 3
    /\ lp.patterns[3].ID = 2

\* C18: no step removes a pattern, changes its place or its ID, or takes an
\* event out of the pattern it is in.
C18_PatternsAccumulate ==
    [][\A k \in DOMAIN lp.patterns :
          /\ k \in DOMAIN lp'.patterns
          /\ lp'.patterns[k].ID = lp.patterns[k].ID
          /\ \A i \in DOMAIN lp.patterns[k].Events :
                \E j \in DOMAIN lp'.patterns[k].Events :
                    lp'.patterns[k].Events[j] = lp.patterns[k].Events[i]]_vars

\* C18 happens: a second Parse call has added an event to a pattern of the
\* first call and a pattern of its own
C18_Witness ==
    /\ Returned
    /\ calls.Parse = 2
    /\ Len(events) = 2
    /\ PatternOf(events[1]) = PatternOf(1)
    /\ events[1] # 1
    /\ PatternOf(events[2]) = Len(lp.patterns)
    /\ Len(lp.patterns[Len(lp.patterns)].Events) = 1

C20_TrueMinimum ==
    (pc = "cleanup" /\ lp.config.FreqThresholdStrategy = FreqMin) =>
        \A k \in DOMAIN lp.patterns :
            (~SmallGroup(lp.patterns[k]) /\ DOMAIN lp.patterns[k].Frequency # {}) =>
                chooseFreqThreshold(lp.config, lp.patterns[k].Frequency,
                                    Len(lp.patterns[k].Events))
                  = Min({lp.patterns[k].Frequency[t] : t \in DOMAIN lp.patterns[k].Frequency})

-----------------------------------------------------------------------------
(* One instance parses the same lines twice                                *)

\* as in TestSortingStrategies: a new instance, WithConfig with a sorting
\* strategy and nothing else (or with DefaultConfig and that strategy)
InitRepeat ==
    /\ \E st \in {SortNone, SortByLength, SortLexical, SortByDynTokens} :
       \E base \in {ZeroConfig, DefaultConfig} :
          lp = WithConfig(NewAWSOMLP, [base EXCEPT !.SortingStrategy = st]).lp
    /\ logLines \in LineSeqs(RepeatLines, RepeatBatch)
    /\ heap = <<>>
    /\ pc = "first"
    /\ events = <<>>
    /\ next = 0
    /\ results = EmptyMap
    /\ results2 = EmptyMap
    /\ templates = <<>>
    /\ templates2 = <<>>
    /\ cfgArg = ZeroConfig
    /\ err = ""
    /\ last = "WithConfig"
    /\ calls = [Parse |-> 0, WithConfig |-> 1]
    /\ lp2 = NewAWSOMLP
    /\ heap2 = <<>>

\* results := parser.Parse(testLogs)
RepeatFirst ==
    /\ pc = "first"
    /\ \E st \in Parse(lp, heap, logLines) :
          /\ lp' = st.lp
          /\ heap' = st.heap
          /\ results' = st.results
    /\ pc' = "again"
    /\ calls' = [calls EXCEPT !.Parse = @ + 1]
    /\ UNCHANGED <<events, next, logLines, templates, cfgArg, err, last, lp2, heap2,
                   results2, templates2>>

\* results2 := parser.Parse(testLogs), on the same instance
RepeatSecond ==
    /\ pc = "again"
    /\ \E st \in Parse(lp, heap, logLines) :
          /\ lp' = st.lp
          /\ heap' = st.heap
          /\ results2' = st.results
    /\ pc' = "done"
    /\ calls' = [calls EXCEPT !.Parse = @ + 1]
    /\ UNCHANGED <<events, next, logLines, results, templates, cfgArg, err, last, lp2,
                   heap2, templates2>>

NextRepeat == RepeatFirst \/ RepeatSecond

SpecRepeat == InitRepeat /\ [][NextRepeat]_vars

\* C13: with any of the four sorting strategies and the other settings at
\* their defaults, the second Parse of the same lines on the same instance
\* returns the map the first one returned.
C13_RepeatedParse == pc = "done" => results2 = results

\* C13 happens: the second call has added its events to a pattern whose
\* events the sort has reordered, and both calls returned two entries
C13_Witness ==
    /\ pc = "done"
    /\ lp.config.SortingStrategy # SortNone
    /\ Cardinality(DOMAIN results2) = 2
    /\ \E k \in DOMAIN lp.patterns :
          /\ Len(lp.patterns[k].Events) = 4
          /\ lp.patterns[k].Events[1] # 1
          /\ \E i \in DOMAIN lp.patterns[k].Events : lp.patterns[k].Events[i] = 1

-----------------------------------------------------------------------------
(* One Parse call on a configured instance, step by step                   *)

InitFreq ==
    /\ \E config \in FreqConfigs : lp = WithConfig(NewAWSOMLP, config).lp
    /\ logLines \in LineSeqs(FreqLines, FreqBatch)
    /\ heap = <<>>
    /\ pc = "start"
    /\ events = <<>>
    /\ next = 0
    /\ results = EmptyMap
    /\ results2 = EmptyMap
    /\ templates = <<>>
    /\ templates2 = <<>>
    /\ cfgArg = ZeroConfig
    /\ err = ""
    /\ last = "WithConfig"
    /\ calls = [Parse |-> 0, WithConfig |-> 1]
    /\ lp2 = NewAWSOMLP
    /\ heap2 = <<>>

\* Parse, steps 1 and 2: preprocessing and pattern recognition
FreqRecognize ==
    /\ pc = "start"
    /\ \E evs \in {NewEvents(lp, logLines)} :
          /\ heap' = evs
          /\ events' = [i \in DOMAIN evs |-> i]
          /\ lp' = patternRecognition(lp, evs, [i \in DOMAIN evs |-> i])
    /\ next' = Len(events') + 1
    /\ pc' = "analyse"
    /\ calls' = [calls EXCEPT !.Parse = @ + 1]
    /\ UNCHANGED <<logLines, results, templates, cfgArg, err, last, Second>>

\* Parse, step 3: frequency analysis
FreqAnalyse ==
    /\ pc = "analyse"
    /\ \E st \in frequencyAnalysis(lp, heap) :
          /\ lp' = st.lp
          /\ heap' = st.heap
    /\ pc' = "cleanup"
    /\ UNCHANGED <<events, next, logLines, results, templates, cfgArg, err, last,
                   calls, Second>>

\* Parse, step 4 and the results
FreqCleanup ==
    /\ pc = "cleanup"
    /\ \E st \in {replaceRemainingNumericalVariables(lp, heap)} :
          /\ lp' = st.lp
          /\ heap' = st.heap
          /\ results' = BuildResults(st.heap, events)
    /\ pc' = "done"
    /\ UNCHANGED <<events, next, logLines, templates, cfgArg, err, last, calls, Second>>

NextFreq == FreqRecognize \/ FreqAnalyse \/ FreqCleanup

SpecFreq == InitFreq /\ [][NextFreq]_vars

-----------------------------------------------------------------------------
(* Properties of the frequency analysis, under SpecFreq                    *)

\* the representative of pattern k: its first event, as sorted
Representative(k) == heap[lp.patterns[k].Events[1]]

\* frequencyAnalysis has just classified the tokens of pattern k
Analysed(k) == pc = "cleanup" /\ ~SmallGroup(lp.patterns[k])

\* the events of pattern k, by place, that have the token
EventsWith(k, token) ==
    {i \in DOMAIN lp.patterns[k].Events :
        \E j \in DOMAIN heap[lp.patterns[k].Events[i]].Tokens :
            heap[lp.patterns[k].Events[i]].Tokens[j] = token}

InEveryEvent(k, token) == EventsWith(k, token) = DOMAIN lp.patterns[k].Events

\* the tokens of the candidate template of pattern k under a configuration:
\* the template before the quality guard and the cleanup
Candidate(config, k) ==
    Fields(generateTemplate(Representative(k), lp.patterns[k].Frequency,
                            chooseFreqThreshold(config, lp.patterns[k].Frequency,
                                                Len(lp.patterns[k].Events))))

\* C21: under FreqAll a token of the representative stays in the template
\* only if every event of the pattern has it; a token that some event of the
\* pattern lacks becomes the placeholder.
C21_FreqAllEveryEvent ==
    lp.config.FreqThresholdStrategy = FreqAll =>
        \A k \in DOMAIN lp.patterns :
            Analysed(k) =>
                \A cand \in {Candidate(lp.config, k)} :
                    \A i \in DOMAIN cand :
                        cand[i] # Placeholder => InEveryEvent(k, cand[i])

\* C22: in a pattern of two events or more where one token of the
\* representative is in every event and another is in one event only, the
\* candidate template has the placeholder in the place of the rare token
\* under FreqAll and the rare token itself under FreqMin.
C22_StrategiesDiverge ==
    \A k \in DOMAIN lp.patterns :
        (Analysed(k) /\ Len(lp.patterns[k].Events) >= 2) =>
            \A i, j \in DOMAIN Representative(k).Tokens :
                (/\ InEveryEvent(k, Representative(k).Tokens[i])
                 /\ Representative(k).Tokens[j] # Placeholder
                 /\ Cardinality(EventsWith(k, Representative(k).Tokens[j])) = 1) =>
                    /\ Candidate([lp.config EXCEPT !.FreqThresholdStrategy = FreqAll], k)[j]
                         = Placeholder
                    /\ Candidate([lp.config EXCEPT !.FreqThresholdStrategy = FreqMin], k)[j]
                         = Representative(k).Tokens[j]

\* C23: with StrictAlphabeticalMatching, two events whose ordered sequences of
\* alphabetical tokens differ have similarity 0, and after the Parse of a fresh
\* instance all events of a pattern have the same ordered sequence of
\* alphabetical tokens.
C23_StrictSameAlphabeticalTokens ==
    lp.config.StrictAlphabeticalMatching =>
        /\ \A i, j \in DOMAIN heap :
              getAlphabeticalTokens(heap[i]) # getAlphabeticalTokens(heap[j])
                  => calculateSimilarity(lp.config, heap[i], heap[j]).num = 0
        /\ \A k \in DOMAIN lp.patterns :
              \A i, j \in DOMAIN lp.patterns[k].Events :
                  getAlphabeticalTokens(heap[lp.patterns[k].Events[i]])
                      = getAlphabeticalTokens(heap[lp.patterns[k].Events[j]])

\* strict matching has kept apart two events with as many letters and other
\* alphabetical tokens, and has put two events in one pattern
C23_Witness ==
    /\ pc = "done"
    /\ lp.config.StrictAlphabeticalMatching
    /\ \E k \in DOMAIN lp.patterns : Len(lp.patterns[k].Events) >= 2
    /\ \E i, j \in DOMAIN heap :
          /\ countAlphabeticalLetters(heap[i]) = countAlphabeticalLetters(heap[j])
          /\ countAlphabeticalLetters(heap[i]) > 0
          /\ Len(getAlphabeticalTokens(heap[i])) = Len(getAlphabeticalTokens(heap[j]))
          /\ getAlphabeticalTokens(heap[i]) # getAlphabeticalTokens(heap[j])
          /\ PatternOf(i) # PatternOf(j)

\* C24: the quality guard. When more than MaxPlaceholderRatio of the tokens of
\* the candidate template are placeholders, the template of the pattern is the
\* preprocessed content of the representative event; when the ratio is at most
\* MaxPlaceholderRatio, or the candidate has no tokens, it is the candidate.
C24_QualityGuard ==
    /\ ~hasExcessivePlaceholders(lp.config, <<>>)
    /\ \A k \in DOMAIN lp.patterns :
          Analysed(k) =>
              \A cand \in {Candidate(lp.config, k)} :
                  lp.patterns[k].Template =
                      IF CountPlaceholders(cand) * 10 > lp.config.MaxPlaceholderRatio * Len(cand)
                      THEN Representative(k).Content
                      ELSE Join(cand)

\* one pattern has fallen back to the content of its representative, another
\* has kept a candidate whose ratio is MaxPlaceholderRatio itself
C24_Witness ==
    /\ pc = "cleanup"
    /\ \E k \in DOMAIN lp.patterns :
          /\ Analysed(k)
          /\ CountPlaceholders(Candidate(lp.config, k)) * 10
                 > lp.config.MaxPlaceholderRatio * Len(Candidate(lp.config, k))
          /\ lp.patterns[k].Template = Representative(k).Content
          /\ lp.patterns[k].Template # Join(Candidate(lp.config, k))
    /\ \E k \in DOMAIN lp.patterns :
          /\ Analysed(k)
          /\ CountPlaceholders(Candidate(lp.config, k)) * 10
                 = lp.config.MaxPlaceholderRatio * Len(Candidate(lp.config, k))
          /\ lp.patterns[k].Template = Join(Candidate(lp.config, k))

\* the threshold frequencyAnalysis hands to generateTemplate for pattern k
Threshold(k) ==
    chooseFreqThreshold(lp.config, lp.patterns[k].Frequency, Len(lp.patterns[k].Events))

\* C25: the candidate template has as many tokens as the representative
\* event; at each position it has the placeholder when the token of the
\* representative is the placeholder, whatever its frequency, or a literal
\* less frequent than the threshold, and the token of the representative when
\* that is a literal with at least the frequency of the threshold.
C25_CandidatePositionwise ==
    \A k \in DOMAIN lp.patterns :
        Analysed(k) =>
            \A t \in {Threshold(k)} \cup (1 .. FreqBatch) :
                \A tokens \in {Representative(k).Tokens} :
                    \A cand \in {Fields(generateTemplate(Representative(k),
                                                         lp.patterns[k].Frequency, t))} :
                        /\ Len(cand) = Len(tokens)
                        /\ \A i \in DOMAIN tokens :
                              cand[i] =
                                  IF tokens[i] = Placeholder THEN Placeholder
                                  ELSE IF MapGet(lp.patterns[k].Frequency, tokens[i]) < t
                                      THEN Placeholder
                                  ELSE tokens[i]

\* the candidate of one pattern has a placeholder of the representative that
\* is less frequent than the threshold, a literal with the frequency of the
\* threshold and a placeholder in the place of a less frequent literal
C25_Witness ==
    /\ pc = "cleanup"
    /\ \E k \in DOMAIN lp.patterns :
          /\ Analysed(k)
          /\ \E i, j, m \in DOMAIN Representative(k).Tokens :
                /\ Representative(k).Tokens[i] = Placeholder
                /\ MapGet(lp.patterns[k].Frequency, Placeholder) < Threshold(k)
                /\ Candidate(lp.config, k)[i] = Placeholder
                /\ Representative(k).Tokens[j] # Placeholder
                /\ MapGet(lp.patterns[k].Frequency, Representative(k).Tokens[j]) = Threshold(k)
                /\ Candidate(lp.config, k)[j] = Representative(k).Tokens[j]
                /\ Representative(k).Tokens[m] # Placeholder
                /\ MapGet(lp.patterns[k].Frequency, Representative(k).Tokens[m]) < Threshold(k)
                /\ Candidate(lp.config, k)[m] = Placeholder

\* event a may come before event b in a pattern sorted under the strategy:
\* its key is smaller, or the keys are equal and its tie-break is not greater
InOrder(strategy, a, b) ==
    IF strategy = SortByLength
        THEN \/ Len(a.Tokens) < Len(b.Tokens)
             \/ Len(a.Tokens) = Len(b.Tokens) /\ ~StrLess(b.Content, a.Content)
    ELSE IF strategy = SortLexical
        THEN \/ StrLess(a.Content, b.Content)
             \/ a.Content = b.Content /\ ~StrLess(b.Raw, a.Raw)
    ELSE \/ countDynamicTokens(a) < countDynamicTokens(b)
         \/ countDynamicTokens(a) = countDynamicTokens(b) /\ ~StrLess(b.Content, a.Content)

\* C26: the sorting step of the frequency analysis leaves in each pattern a
\* permutation of its events, in non-decreasing order of the key of the
\* strategy (token count; content; number of non-alphabetical tokens) with
\* ties in the order of the tie-break (content; raw; content); under SortNone
\* the events stay in the order of insertion.
C26_SortedPermutation ==
    [][pc = "analyse" =>
         /\ Len(lp'.patterns) = Len(lp.patterns)
         /\ \A k \in DOMAIN lp.patterns :
               \A before \in {lp.patterns[k].Events} :
                   \A after \in {lp'.patterns[k].Events} :
                       /\ Len(after) = Len(before)
                       /\ \A e \in DOMAIN heap :
                             Cardinality({i \in DOMAIN after : after[i] = e})
                                 = Cardinality({i \in DOMAIN before : before[i] = e})
                       /\ IF lp.config.SortingStrategy = SortNone THEN after = before
                          ELSE \A i, j \in DOMAIN after :
                                  i < j => InOrder(lp.config.SortingStrategy,
                                                   heap[after[i]], heap[after[j]])]_vars

\* a pattern was sorted under the lexical strategy: an event has moved before
\* one inserted earlier, one pair by its content and one pair, of the same
\* content, by its raw line
C26_Witness ==
    /\ pc = "cleanup"
    /\ lp.config.SortingStrategy = SortLexical
    /\ \E k \in DOMAIN lp.patterns :
          \E es \in {lp.patterns[k].Events} :
              /\ \E i, j \in DOMAIN es :
                    /\ i < j /\ es[i] > es[j]
                    /\ StrLess(heap[es[i]].Content, heap[es[j]].Content)
              /\ \E i, j \in DOMAIN es :
                    /\ i < j /\ es[i] > es[j]
                    /\ heap[es[i]].Content = heap[es[j]].Content
                    /\ StrLess(heap[es[i]].Raw, heap[es[j]].Raw)

-----------------------------------------------------------------------------
(* Properties of the patterns over several calls, under Spec               *)

\* every Parse call so far ran with a threshold of 1.0 and without strict
\* matching: NewAWSOMLP configures that, and so does the one WithConfig call
ThresholdOneThroughout ==
    /\ calls.WithConfig <= 1
    /\ lp.config.MinSimilarity = 10
    /\ ~lp.config.StrictAlphabeticalMatching

\* C27: with a threshold of 1.0 and strict matching off, all events of a
\* pattern have the same number of alphabetical letters, in every state, also
\* after sorting has changed the first event and after further Parse calls.
C27_SameLetterCount ==
    ThresholdOneThroughout =>
        \A k \in DOMAIN lp.patterns :
            \A i, j \in DOMAIN lp.patterns[k].Events :
                countAlphabeticalLetters(heap[lp.patterns[k].Events[i]])
                    = countAlphabeticalLetters(heap[lp.patterns[k].Events[j]])

\* after a second Parse call, a pattern whose first event sorting has changed
\* holds an event of that call, and an event of another letter count is in
\* another pattern
C27_Witness ==
    /\ pc = "idle"
    /\ calls.Parse = 2
    /\ ThresholdOneThroughout
    /\ lp.config.SortingStrategy # SortNone
    /\ \E k \in DOMAIN lp.patterns :
          \E es \in {lp.patterns[k].Events} :
              /\ Len(es) >= 2
              /\ \E i \in DOMAIN es : es[i] < es[1]
              /\ \E i \in DOMAIN es : \E n \in DOMAIN events : es[i] = events[n]
              /\ \E i \in DOMAIN es : \A n \in DOMAIN events : es[i] # events[n]
    /\ \E e1, e2 \in DOMAIN heap :
          /\ countAlphabeticalLetters(heap[e1]) > countAlphabeticalLetters(heap[e2])
          /\ countAlphabeticalLetters(heap[e2]) > 0

\* the places of the patterns that hold the event at heap index e
Places(e) ==
    {<<k, i>> \in (DOMAIN lp.patterns) \X (1 .. Len(heap)) :
        i \in DOMAIN lp.patterns[k].Events /\ lp.patterns[k].Events[i] = e}

\* the number of lines with a character that is not white space
NonBlank(lines) ==
    Cardinality({n \in DOMAIN lines : \E i \in DOMAIN lines[n] : lines[n][i] \notin Space})

\* C28: after each Parse call every event built during the call is in exactly
\* one pattern, and the patterns hold as many events as the Parse calls made
\* so far on the instance were given non-blank lines: each call builds one
\* event for each of its non-blank lines, nothing else builds or drops an
\* event, and every event built is in one place of one pattern.
C28_Partition ==
    /\ [](pc = "idle" =>
            /\ \A n \in DOMAIN events : Cardinality(Places(events[n])) = 1
            /\ \A e \in DOMAIN heap : Cardinality(Places(e)) = 1
            /\ SumSeq([k \in DOMAIN lp.patterns |-> Len(lp.patterns[k].Events)]) = Len(heap))
    /\ [][IF pc = "idle" /\ calls'.Parse = calls.Parse + 1
          THEN /\ Len(heap') = Len(heap) + NonBlank(logLines')
               /\ Len(events') = NonBlank(logLines')
               /\ \A n \in DOMAIN events' : events'[n] = Len(heap) + n
          ELSE Len(heap') = Len(heap)]_vars

\* two Parse calls have returned, the second was given a blank line and a
\* line whose event has joined a pattern of the first call
C28_Witness ==
    /\ pc = "idle"
    /\ last = "Parse"
    /\ calls.Parse = 2
    /\ NonBlank(logLines) < Len(logLines)
    /\ Len(heap) = 3
    /\ Len(events) = 1
    /\ Len(lp.patterns) = 2
    /\ Len(lp.patterns[PatternOf(events[1])].Events) = 2

\* C29: an event without alphabetical letters joins no pattern and no event
\* joins its pattern: under every configuration WithConfig accepts, a pattern
\* that holds such an event holds that event only, in every state.
C29_ZeroLetterAlone ==
    \A k \in DOMAIN lp.patterns :
        \A es \in {lp.patterns[k].Events} :
            (\E i \in DOMAIN es : countAlphabeticalLetters(heap[es[i]]) = 0)
                => Len(es) = 1

\* WithConfig was given a MinSimilarity of 0 and accepted it, and two events
\* without letters, one of each Parse call, are in two patterns
C29_Witness ==
    /\ pc = "idle"
    /\ calls.WithConfig = 1
    /\ cfgArg.MinSimilarity = 0
    /\ err = ""
    /\ calls.Parse = 2
    /\ \E e1, e2 \in DOMAIN heap :
          /\ e1 < e2
          /\ e2 \in {events[n] : n \in DOMAIN events}
          /\ e1 \notin {events[n] : n \in DOMAIN events}
          /\ countAlphabeticalLetters(heap[e1]) = 0
          /\ countAlphabeticalLetters(heap[e2]) = 0
          /\ PatternOf(e1) # PatternOf(e2)
          /\ PatternOf(e1) < Len(lp.patterns)

-----------------------------------------------------------------------------
(* The minimum-frequency strategy, under SpecFreq                          *)

\* C30: under FreqMin the frequency analysis turns no literal token into a
\* placeholder: the candidate template of a pattern of any size is the tokens
\* of its representative joined by single spaces, so that the template has
\* the placeholders of preprocessing only, until the numeric cleanup rewrites
\* it.
C30_FreqMinKeepsTokens ==
    lp.config.FreqThresholdStrategy = FreqMin =>
        \A k \in DOMAIN lp.patterns :
            \A tokens \in {Representative(k).Tokens} :
                /\ Analysed(k) =>
                      generateTemplate(Representative(k), lp.patterns[k].Frequency,
                                       Threshold(k)) = Join(tokens)
                /\ pc = "cleanup" =>
                      lp.patterns[k].Template \in {Join(tokens), Representative(k).Content}
                /\ pc = "done" =>
                      lp.patterns[k].Template
                          \in {Cleaned[Join(tokens)], Cleaned[Representative(k).Content]}

\* under FreqMin a pattern of two events has kept as its template the tokens
\* of its representative: a placeholder of preprocessing and a literal that
\* its other event does not have
C30_Witness ==
    /\ pc = "cleanup"
    /\ lp.config.FreqThresholdStrategy = FreqMin
    /\ \E k \in DOMAIN lp.patterns :
          /\ Analysed(k)
          /\ Len(lp.patterns[k].Events) >= 2
          /\ lp.patterns[k].Template = Join(Representative(k).Tokens)
          /\ \E i, j \in DOMAIN Representative(k).Tokens :
                /\ Representative(k).Tokens[i] = Placeholder
                /\ Representative(k).Tokens[j] # Placeholder
                /\ Cardinality(EventsWith(k, Representative(k).Tokens[j])) = 1
                /\ lp.patterns[k].Frequency[Representative(k).Tokens[j]]
                       < Len(lp.patterns[k].Events)

=============================================================================
